---- MODULE Spec2Model ----
(***************************************************************************)
(* Model of the Network container (src/src/network.rs): construction of    *)
(* the layer pipeline from a NetworkConfig and the forward / backward      *)
(* execution protocol over the built pipeline.                             *)
(*                                                                         *)
(* Tensors (SharedTensor behind an Arc<RwLock<..>>) live in a heap,        *)
(* `tensors`; a handle (ArcLock) is the 1-based index of its tensor, so    *)
(* cloning a handle copies the index and two equal indices alias one       *)
(* tensor.  The content of a tensor is abstracted to one integer.          *)
(* Layer indices are 0-based as in the source: layer i is layers[i + 1].   *)
(***************************************************************************)
EXTENDS Integers, Sequences, FiniteSets, TLC

VARIABLES
    network,    \* the Network struct (its fields)
    tensors,    \* heap of tensor contents, indexed by handle
    registry,   \* the local `registry` of Network::init
    pc,         \* position: "inputs", "layers", "built", "panicked"; "config"
                \* before from_config; "check" / "checked" around a pure function
    input_id,   \* number of iterations done of the input loop of init
    call,       \* the call being reported in this state: [fn, args]
    trace,      \* calls made on layers (and tensors) by the last operation,
                \* in order; for a pure function, the value it returned
    loss,       \* value returned by the last forward operation
    solver      \* the Momentum solver driving the network (its fields)

vars == <<network, tensors, registry, pc, input_id, call, trace, loss, solver>>

(***************************************************************************)
(* Bounds                                                                  *)
(***************************************************************************)
\* longest list of external inputs of a configuration
MaxInputs == 2
\* longest list of layer configurations of a configuration
MaxLayers == 3
\* longest chain of layers the execution specification starts from
MaxChain == 3

InputNames == {"a", "b"}

TopNames == <<"t1", "t2", "t3", "t4", "t5", "t6">>

BlobNames == InputNames \cup {TopNames[k] : k \in 1..MaxLayers}

\* WeightConfig::default (the shape of a weight is not part of its
\* descriptor: the layer type decides it, `weight_shape` below).  An
\* Option is a sequence: <<>> is None, <<v>> is Some(v).
DefaultWeight ==
    [name |-> "", share_mode |-> "Strict",
     lr_mult |-> <<>>, decay_mult |-> <<>>, filler |-> <<>>]

\* NetworkState::default
DefaultState ==
    [mode |-> "Test", level |-> 0, stage |-> <<>>]

\* The layer configurations offered for pipeline position k (1-based):
\* at most one bottom; a "linear" layer (one weight) has no top, a fresh
\* top, or its bottom as top (in-place computation); a "loss" layer is
\* terminal and has no top.  `valid` is what the layer type's structural
\* checks find, `include` and `exclude` are the layer's rules on the
\* network state (none: the layer is unconditional).
LayerConfigs(k) ==
    LET Bottoms == {<<>>} \cup {<<n>> : n \in BlobNames}
        Tops(b) == {<<>>, <<TopNames[k]>>} \cup (IF b = <<>> THEN {} ELSE {b})
    IN  UNION {{[inputs |-> b, outputs |-> t, kind |-> "linear",
                 weight |-> DefaultWeight, weight_shape |-> <<1>>,
                 valid |-> TRUE, include |-> <<>>, exclude |-> <<>>] : t \in Tops(b)}
                  \cup {[inputs |-> b, outputs |-> <<>>, kind |-> "loss",
                         weight |-> DefaultWeight, weight_shape |-> <<1>>,
                         valid |-> TRUE, include |-> <<>>, exclude |-> <<>>]} :
               b \in Bottoms}

Range(seq) ==
    {seq[i] : i \in 1..Len(seq)}

RECURSIVE Perms(_)
Perms(S) ==
    IF S = {} THEN {<<>>}
    ELSE UNION {{<<x>> \o p : p \in Perms(S \ {x})} : x \in S}

(***************************************************************************)
(* Network::default                                                        *)
(***************************************************************************)
EmptyRegistry ==
    [n \in {} |-> <<0, 0>>]

\* weight_registry of Network::init: share name -> the owner's buffers
EmptyWeightRegistry ==
    [n \in {} |-> [data |-> 0, gradient |-> 0, shape |-> <<>>]]

DefaultNetwork ==
    [layers |-> <<>>,
     blobs_data |-> <<>>, blobs_gradient |-> <<>>, blob_names |-> <<>>,
     input_blobs_data |-> <<>>, input_blobs_gradient |-> <<>>,
     input_blob_names |-> <<>>,
     output_blobs_data |-> <<>>, output_blobs_gradient |-> <<>>,
     registry |-> EmptyRegistry,
     weight_owners |-> <<>>, weights |-> <<>>,
     learnable_weights_data |-> <<>>, learnable_weights_gradient |-> <<>>,
     weights_lr |-> <<>>, weights_weight_decay |-> <<>>]

\* The state a panic leaves behind: the network under construction is
\* dropped while unwinding, so from_config returns nothing.
Panicked ==
    [network |-> DefaultNetwork, tensors |-> <<>>,
     registry |-> EmptyRegistry, weight_registry |-> EmptyWeightRegistry,
     failed |-> TRUE]

Insert(reg, name, pair) ==
    [n \in DOMAIN reg \cup {name} |-> IF n = name THEN pair ELSE reg[n]]

Remove(reg, name) ==
    [n \in DOMAIN reg \ {name} |-> reg[n]]

(***************************************************************************)
(* Network::init_input_blob                                                *)
(***************************************************************************)
InitInputBlob_NoCheck(s, blob_name) ==
    LET blob_data == Len(s.tensors) + 1
        blob_gradient == Len(s.tensors) + 2
    IN  [s EXCEPT
            !.tensors = @ \o <<0, 0>>,
            !.network.blobs_data = Append(@, blob_data),
            !.network.blob_names = Append(@, blob_name),
            !.network.input_blobs_data = Append(@, blob_data),
            !.network.input_blob_names = Append(@, blob_name),
            !.registry = Insert(@, blob_name, <<blob_data, blob_gradient>>)]

InitInputBlob(s, blob_name) ==
    IF blob_name \in DOMAIN s.registry
    THEN s   \* error!("Top blob {} produced by multiple sources."); return
    ELSE LET blob_data == Len(s.tensors) + 1
             blob_gradient == Len(s.tensors) + 2
         IN  [s EXCEPT
                !.tensors = @ \o <<0, 0>>,
                !.network.blobs_data = Append(@, blob_data),
                !.network.blob_names = Append(@, blob_name),
                !.network.input_blobs_data = Append(@, blob_data),
                !.network.input_blob_names = Append(@, blob_name),
                !.registry = Insert(@, blob_name, <<blob_data, blob_gradient>>)]

(***************************************************************************)
(* WeightConfig::check_dimensions (src/src/weight.rs)                      *)
(***************************************************************************)
\* Blob::size(): the number of elements, the product of the dimensions
RECURSIVE SizeFrom(_, _)
SizeFrom(shape, k) ==
    IF k > Len(shape) THEN 1
    ELSE shape[k] * SizeFrom(shape, k + 1)

Size(shape) ==
    SizeFrom(shape, 1)

\* self is the WeightConfig; blob_one the sharing layer's blob, blob_two
\* the owner's.  "Err" stands for Err(message), "Ok" for Ok(()).
CheckDimensions_ModesSwapped(self, blob_one, blob_two) ==
    CASE self.share_mode = "Strict" ->
            IF Size(blob_one) # Size(blob_two) THEN "Err" ELSE "Ok"
      [] self.share_mode = "Permissive" ->
            IF blob_one # blob_two THEN "Err" ELSE "Ok"

CheckDimensions(self, blob_one, blob_two) ==
    CASE self.share_mode = "Permissive" ->
            IF Size(blob_one) # Size(blob_two) THEN "Err" ELSE "Ok"
      [] self.share_mode = "Strict" ->
            IF blob_one # blob_two THEN "Err" ELSE "Ok"

\* WeightConfig::lr_mult, WeightConfig::decay_mult: the configured
\* multiplier, 1.0 when none is configured (multipliers are modelled by
\* integers)
LrMult_DecayField(self) ==
    IF self.decay_mult = <<>> THEN 1 ELSE self.decay_mult[1]

LrMult(self) ==
    IF self.lr_mult = <<>> THEN 1 ELSE self.lr_mult[1]

DecayMult(self) ==
    IF self.decay_mult = <<>> THEN 1 ELSE self.decay_mult[1]

(***************************************************************************)
(* FillerType::fill (src/src/weight.rs).  Here a SharedTensor is spelled   *)
(* out: the device holding its latest copy, and the elements of the copy   *)
(* on every device it tracks.  The tensor operations follow the contract   *)
(* of the backend's tensor type, which is not part of the sources.         *)
(***************************************************************************)
LatestDevice(tensor) ==
    tensor.latest_location

\* add_device: allocates a copy on a device the tensor does not track
\* yet (the new memory holds no element of the tensor: -1 stands for
\* whatever it holds), and is an error on a tracked device
AddDevice(tensor, device) ==
    IF device \in DOMAIN tensor.copies
    THEN [tensor |-> tensor, result |-> "Err"]
    ELSE [tensor |-> [tensor EXCEPT !.copies =
                        Insert(@, device,
                               [k \in 1..Len(tensor.copies[tensor.latest_location]) |-> -1])],
          result |-> "Ok"]

\* sync: copies the latest copy to the destination, which becomes the
\* latest location; nothing to do when it already is; an error when the
\* tensor has no copy on the destination
Sync(tensor, destination) ==
    IF tensor.latest_location = destination
    THEN [tensor |-> tensor, result |-> "Ok"]
    ELSE IF destination \notin DOMAIN tensor.copies
    THEN [tensor |-> tensor, result |-> "Err"]
    ELSE [tensor |-> [tensor EXCEPT
                        !.copies[destination] = tensor.copies[tensor.latest_location],
                        !.latest_location = destination],
          result |-> "Ok"]

\* for e in native_weight.as_mut_slice::<f32>() { *e = value; }
WriteAll(tensor, device, value) ==
    [tensor EXCEPT !.copies[device] = [k \in 1..Len(@) |-> value]]

\* The result: the tensor left in `weight`, the tensor operations made on
\* it in order, and whether an unwrap() panicked.
FillConstant_NoSyncBack(weight, value) ==
    LET native_device == "native"
        added == AddDevice(weight, native_device)
        to_native == Sync(added.tensor, native_device)
        filled == WriteAll(to_native.tensor, native_device, value)
    IN  IF to_native.result = "Err"
        THEN [weight |-> to_native.tensor, panicked |-> TRUE,
              trace |-> <<<<"add_device", native_device>>, <<"sync", native_device>>>>]
        ELSE [weight |-> filled, panicked |-> FALSE,
              trace |-> <<<<"add_device", native_device>>, <<"sync", native_device>>,
                          <<"write", native_device>>>>]

FillConstant(weight, value) ==
    LET native_device == "native"
        actual_device == LatestDevice(weight)
        added == AddDevice(weight, native_device)   \* match .. { _ => .. }
        to_native == Sync(added.tensor, native_device)
        filled == WriteAll(to_native.tensor, native_device, value)
        back == Sync(filled, actual_device)
    IN  IF to_native.result = "Err"
        THEN [weight |-> to_native.tensor, panicked |-> TRUE,
              trace |-> <<<<"add_device", native_device>>, <<"sync", native_device>>>>]
        ELSE [weight |-> back.tensor, panicked |-> back.result = "Err",
              trace |-> <<<<"add_device", native_device>>, <<"sync", native_device>>,
                          <<"write", native_device>>, <<"sync", actual_device>>>>]

\* match *self { FillerType::Constant { value } => .. }
Fill(self, weight) ==
    FillConstant(weight, self.value)

(***************************************************************************)
(* Layer (wiring half of the layer contract; the layer module is not part  *)
(* of the sources, these definitions follow the documented contract).      *)
(***************************************************************************)
LayerFromConfig(layer_config) ==
    [config |-> layer_config,
     input_blob_names |-> <<>>,
     input_blobs_data |-> <<>>, input_blobs_gradient |-> <<>>,
     output_blob_names |-> <<>>,
     output_blobs_data |-> <<>>, output_blobs_gradient |-> <<>>,
     weights_data |-> <<>>, weights_gradient |-> <<>>, weights_shape |-> <<>>,
     input_need_backwards |-> <<>>,
     skip_backward |-> FALSE]

\* c = [layer, registry, tensors, failed]: the layer being connected, the
\* registry it is connected through, the heap, and whether wiring failed.
\* A bottom must be registered; it is bound to the input slot and leaves
\* the registry (what is left in the registry at the end is the output).
ConnectInput(c, blob_name) ==
    IF c.failed THEN c
    ELSE IF blob_name \notin DOMAIN c.registry
    THEN [c EXCEPT !.failed = TRUE]   \* unmet dependency: fatal
    ELSE [c EXCEPT
            !.layer.input_blob_names = Append(@, blob_name),
            !.layer.input_blobs_data = Append(@, c.registry[blob_name][1]),
            !.layer.input_blobs_gradient = Append(@, c.registry[blob_name][2]),
            !.layer.input_need_backwards = Append(@, TRUE),
            !.registry = Remove(@, blob_name)]

\* A top named like one of the layer's bottoms reuses that bottom's pair
\* (in-place); any other top gets a fresh pair.  Either way the name is
\* registered.
AppendOutput(c, blob_name) ==
    IF c.failed THEN c
    ELSE IF blob_name \in Range(c.layer.input_blob_names)
    THEN LET k == CHOOSE j \in 1..Len(c.layer.input_blob_names) :
                      c.layer.input_blob_names[j] = blob_name
             pair == <<c.layer.input_blobs_data[k], c.layer.input_blobs_gradient[k]>>
         IN  [c EXCEPT
                !.layer.output_blob_names = Append(@, blob_name),
                !.layer.output_blobs_data = Append(@, pair[1]),
                !.layer.output_blobs_gradient = Append(@, pair[2]),
                !.registry = Insert(@, blob_name, pair)]
    ELSE LET pair == <<Len(c.tensors) + 1, Len(c.tensors) + 2>>
         IN  [c EXCEPT
                !.tensors = @ \o <<0, 0>>,
                !.layer.output_blob_names = Append(@, blob_name),
                !.layer.output_blobs_data = Append(@, pair[1]),
                !.layer.output_blobs_gradient = Append(@, pair[2]),
                !.registry = Insert(@, blob_name, pair)]

\* A "linear" layer has one learnable weight (data and gradient tensor).
\* An unnamed weight, or the first weight of its name, gets fresh
\* buffers, and a named one is entered in the weight registry.  A weight
\* whose name is already registered is shared: its dimensions are checked
\* against the owner's under the sharer's share_mode (a mismatch is a
\* configuration error, fatal to construction) and the layer holds the
\* owner's two handles.
AppendWeights_Copy(c) ==
    IF c.failed \/ c.layer.config.kind # "linear" THEN c
    ELSE LET name == c.layer.config.weight.name
             shape == c.layer.config.weight_shape
             data == Len(c.tensors) + 1
             gradient == Len(c.tensors) + 2
         IN  IF name = "" \/ name \notin DOMAIN c.weight_registry
             THEN [c EXCEPT
                    !.tensors = @ \o <<0, 0>>,
                    !.layer.weights_data = Append(@, data),
                    !.layer.weights_gradient = Append(@, gradient),
                    !.layer.weights_shape = Append(@, shape),
                    !.weight_registry =
                        IF name = "" THEN @
                        ELSE Insert(@, name, [data |-> data, gradient |-> gradient,
                                              shape |-> shape])]
             ELSE LET owner == c.weight_registry[name]
                  IN  IF CheckDimensions(c.layer.config.weight, shape, owner.shape) = "Err"
                      THEN [c EXCEPT !.failed = TRUE]
                      ELSE [c EXCEPT
                              !.tensors = @ \o <<c.tensors[owner.data],
                                                 c.tensors[owner.gradient]>>,
                              !.layer.weights_data = Append(@, data),
                              !.layer.weights_gradient = Append(@, gradient),
                              !.layer.weights_shape = Append(@, shape)]

AppendWeights(c) ==
    IF c.failed \/ c.layer.config.kind # "linear" THEN c
    ELSE LET name == c.layer.config.weight.name
             shape == c.layer.config.weight_shape
             data == Len(c.tensors) + 1
             gradient == Len(c.tensors) + 2
         IN  IF name = "" \/ name \notin DOMAIN c.weight_registry
             THEN [c EXCEPT
                    !.tensors = @ \o <<0, 0>>,
                    !.layer.weights_data = Append(@, data),
                    !.layer.weights_gradient = Append(@, gradient),
                    !.layer.weights_shape = Append(@, shape),
                    !.weight_registry =
                        IF name = "" THEN @
                        ELSE Insert(@, name, [data |-> data, gradient |-> gradient,
                                              shape |-> shape])]
             ELSE LET owner == c.weight_registry[name]
                  IN  IF CheckDimensions(c.layer.config.weight, shape, owner.shape) = "Err"
                      THEN [c EXCEPT !.failed = TRUE]
                      ELSE [c EXCEPT
                              !.layer.weights_data = Append(@, owner.data),
                              !.layer.weights_gradient = Append(@, owner.gradient),
                              !.layer.weights_shape = Append(@, owner.shape)]

RECURSIVE ConnectInputs(_, _, _)
ConnectInputs(c, names, k) ==
    IF k > Len(names) THEN c
    ELSE ConnectInputs(ConnectInput(c, names[k]), names, k + 1)

RECURSIVE AppendOutputs(_, _, _)
AppendOutputs(c, names, k) ==
    IF k > Len(names) THEN c
    ELSE AppendOutputs(AppendOutput(c, names[k]), names, k + 1)

Connect(layer, reg, weight_reg, heap) ==
    LET c0 == [layer |-> layer, registry |-> reg, weight_registry |-> weight_reg,
               tensors |-> heap, failed |-> FALSE]
        c1 == ConnectInputs(c0, layer.config.inputs, 1)
        c2 == AppendOutputs(c1, layer.config.outputs, 1)
    IN  AppendWeights(c2)

\* One step of the reverse walk that decides which layers take part in
\* backpropagation.  b = [layer, blobs_under_loss, blobs_skip_backp].
InitBackprop(layer, blobs_under_loss, blobs_skip_backp) ==
    LET layer_contributes_loss ==
            \/ layer.config.kind = "loss"
            \/ Range(layer.output_blob_names) \cap blobs_under_loss # {}
        ins == Range(layer.input_blob_names)
    IN  [layer |-> [layer EXCEPT
                      !.skip_backward = ~layer_contributes_loss,
                      !.input_need_backwards =
                          [j \in 1..Len(@) |-> layer_contributes_loss]],
         blobs_under_loss |->
            IF layer_contributes_loss THEN blobs_under_loss \cup ins
            ELSE blobs_under_loss,
         blobs_skip_backp |->
            IF layer_contributes_loss THEN blobs_skip_backp
            ELSE blobs_skip_backp \cup ins]

InitForceBackward(layer) ==
    [layer EXCEPT
        !.skip_backward = FALSE,
        !.input_need_backwards = [j \in 1..Len(@) |-> TRUE]]

\* LayerConfig::validate: the layer type's structural checks
Validate(layer_config) ==
    IF layer_config.valid THEN "Ok" ELSE "Err"

\* A rule on the network state matches a state of its mode; a layer
\* belongs to the networks whose state matches one of its include rules
\* (any state when it has none) and none of its exclude rules.
StateMeetsRule(state, rule) ==
    state.mode = rule.mode

Included(state, layer_config) ==
    /\ \/ layer_config.include = <<>>
       \/ \E k \in 1..Len(layer_config.include) :
            StateMeetsRule(state, layer_config.include[k])
    /\ \A k \in 1..Len(layer_config.exclude) :
            ~StateMeetsRule(state, layer_config.exclude[k])

(***************************************************************************)
(* Network::init_layer                                                     *)
(***************************************************************************)
\* layer_config.validate() only logs its error; the layer is created,
\* connected, its weights appended to the learnable lists, and pushed.
InitLayer_LogOnly(s, layer_config) ==
    LET c == Connect(LayerFromConfig(layer_config), s.registry,
                     s.weight_registry, s.tensors)
    IN  IF c.failed THEN s
        ELSE [s EXCEPT
                !.tensors = c.tensors,
                !.registry = c.registry,
                !.weight_registry = c.weight_registry,
                !.network.learnable_weights_data = @ \o c.layer.weights_data,
                !.network.learnable_weights_gradient = @ \o c.layer.weights_gradient,
                !.network.layers = Append(@, c.layer)]

InitLayer_Prepend(s, layer_config) ==
    LET c == Connect(LayerFromConfig(layer_config), s.registry,
                     s.weight_registry, s.tensors)
    IN  IF c.failed THEN Panicked
        ELSE [s EXCEPT
                !.tensors = c.tensors,
                !.registry = c.registry,
                !.weight_registry = c.weight_registry,
                !.network.learnable_weights_data = @ \o c.layer.weights_data,
                !.network.learnable_weights_gradient = @ \o c.layer.weights_gradient,
                !.network.layers = <<c.layer>> \o @]

InitLayer(s, layer_config) ==
    LET validated == Validate(layer_config)   \* an Err is logged: error!("{}", e)
        c == Connect(LayerFromConfig(layer_config), s.registry,
                     s.weight_registry, s.tensors)
    IN  IF c.failed THEN Panicked
        ELSE [s EXCEPT
                !.tensors = c.tensors,
                !.registry = c.registry,
                !.weight_registry = c.weight_registry,
                !.network.learnable_weights_data = @ \o c.layer.weights_data,
                !.network.learnable_weights_gradient = @ \o c.layer.weights_gradient,
                !.network.layers = Append(@, c.layer)]

(***************************************************************************)
(* Network::share_weights                                                  *)
(***************************************************************************)
\* desc().size() of the tensor behind handle h: the element count of the
\* shape the layer holding the weight gave it
WeightSize(net, h) ==
    LET holders == {kj \in UNION {{<<k, j>> : j \in 1..Len(net.layers[k].weights_data)} :
                                     k \in 1..Len(net.layers)} :
                       net.layers[kj[1]].weights_data[kj[2]] = h}
    IN  IF holders = {} THEN 0
        ELSE LET kj == CHOOSE x \in holders : TRUE
             IN  Size(net.layers[kj[1]].weights_shape[kj[2]])

\* sh = [network, failed]; weight_owners[i] = 0 stands for None.  The
\* loop runs over self.weights, a list no step of construction fills.
RECURSIVE ShareWeightsFrom(_, _)
ShareWeightsFrom(sh, i) ==
    IF i > Len(sh.network.weights) \/ sh.failed THEN sh
    ELSE LET j == sh.network.weight_owners[i]
         IN  IF j = 0 THEN ShareWeightsFrom(sh, i + 1)
             ELSE IF WeightSize(sh.network, sh.network.weights[i])
                        # WeightSize(sh.network, sh.network.weights[j])
             THEN [sh EXCEPT !.failed = TRUE]   \* assert!(size == size)
             ELSE ShareWeightsFrom(
                    [sh EXCEPT !.network.weights[i] = sh.network.weights[j]], i + 1)

ShareWeights(net) ==
    ShareWeightsFrom([network |-> net, failed |-> FALSE], 1)

(***************************************************************************)
(* Network::init, after the input loop and the layer loop                  *)
(***************************************************************************)
\* for layer in self.layers.iter_mut().rev() { layer.init_backprop(..) }
\* w = [layers, blobs_under_loss, blobs_skip_backp, trace]; the trace
\* records each call with the contents of the two sets passed to it
RECURSIVE BackpropWalk(_, _)
BackpropWalk(w, i) ==
    IF i < 0 THEN w
    ELSE LET b == InitBackprop(w.layers[i + 1], w.blobs_under_loss, w.blobs_skip_backp)
         IN  BackpropWalk(
                [layers |-> [w.layers EXCEPT ![i + 1] = b.layer],
                 blobs_under_loss |-> b.blobs_under_loss,
                 blobs_skip_backp |-> b.blobs_skip_backp,
                 trace |-> Append(w.trace,
                    <<"init_backprop", i,
                      [blobs_under_loss |-> w.blobs_under_loss,
                       blobs_skip_backp |-> w.blobs_skip_backp]>>)], i - 1)

RECURSIVE BackpropWalkUp(_, _)
BackpropWalkUp(w, i) ==
    IF i >= Len(w.layers) THEN w
    ELSE LET b == InitBackprop(w.layers[i + 1], w.blobs_under_loss, w.blobs_skip_backp)
         IN  BackpropWalkUp(
                [layers |-> [w.layers EXCEPT ![i + 1] = b.layer],
                 blobs_under_loss |-> b.blobs_under_loss,
                 blobs_skip_backp |-> b.blobs_skip_backp,
                 trace |-> Append(w.trace,
                    <<"init_backprop", i,
                      [blobs_under_loss |-> w.blobs_under_loss,
                       blobs_skip_backp |-> w.blobs_skip_backp]>>)], i + 1)

InitBackpropPass_Forward(layers) ==
    BackpropWalkUp([layers |-> layers, blobs_under_loss |-> {},
                    blobs_skip_backp |-> {}, trace |-> <<>>], 0)

InitBackpropPass(layers) ==
    BackpropWalk([layers |-> layers, blobs_under_loss |-> {},
                  blobs_skip_backp |-> {}, trace |-> <<>>], Len(layers) - 1)

\* for (blob_name, blob) in registry.iter() { push to the output lists }:
\* `order` is the order in which the HashMap yields its keys.
CollectOutputs_AllBlobs(net, reg, order) ==
    [net EXCEPT
        !.output_blobs_data = net.blobs_data,
        !.output_blobs_gradient = net.blobs_data]

CollectOutputs(net, reg, order) ==
    [net EXCEPT
        !.output_blobs_data = [k \in 1..Len(order) |-> reg[order[k]][1]],
        !.output_blobs_gradient = [k \in 1..Len(order) |-> reg[order[k]][2]]]

\* the pushes to the output lists, as entries of the trace of init
OutputSteps(reg, order) ==
    [k \in 1..Len(order) |-> <<"output", reg[order[k]][1], 0>>]

\* The trace of init lists the init_backprop calls, the
\* init_force_backward calls and the pushes to the output lists.
InitFinish_NoForce(s, force_backward, order) ==
    LET walked == InitBackpropPass(s.network.layers)
        net1 == [s.network EXCEPT !.layers = walked.layers]
        net2 == CollectOutputs(net1, s.registry, order)
        shared == ShareWeights(net2)
    IN  IF shared.failed
        THEN [network |-> DefaultNetwork, tensors |-> <<>>,
              registry |-> EmptyRegistry, trace |-> <<>>, failed |-> TRUE]
        ELSE [network |-> [shared.network EXCEPT !.registry = s.registry],
              tensors |-> s.tensors,
              registry |-> s.registry,
              trace |-> walked.trace \o OutputSteps(s.registry, order),
              failed |-> FALSE]

InitFinish(s, force_backward, order) ==
    LET walked == InitBackpropPass(s.network.layers)
        forced == IF force_backward
                  THEN [k \in 1..Len(walked.layers) |-> InitForceBackward(walked.layers[k])]
                  ELSE walked.layers
        net1 == [s.network EXCEPT !.layers = forced]
        net2 == CollectOutputs(net1, s.registry, order)
        shared == ShareWeights(net2)
    IN  IF shared.failed
        THEN [network |-> DefaultNetwork, tensors |-> <<>>,
              registry |-> EmptyRegistry, trace |-> <<>>, failed |-> TRUE]
        ELSE [network |-> [shared.network EXCEPT !.registry = s.registry],
              tensors |-> s.tensors,
              registry |-> s.registry,
              trace |-> walked.trace
                        \o (IF force_backward
                            THEN [k \in 1..Len(forced) |-> <<"init_force_backward", k - 1, 0>>]
                            ELSE <<>>)
                        \o OutputSteps(s.registry, order),
              failed |-> FALSE]

(***************************************************************************)
(* Layer (execution half of the layer contract, as documented): forward    *)
(* returns the layer's loss contribution, the two backward entry points    *)
(* honor skip_backward, synchronize changes no tensor.                     *)
(***************************************************************************)
RECURSIVE SumAt(_, _, _)
SumAt(heap, handles, k) ==
    IF k > Len(handles) THEN 0
    ELSE heap[handles[k]] + SumAt(heap, handles, k + 1)

SetAll(heap, handles, v) ==
    [h \in 1..Len(heap) |-> IF h \in Range(handles) THEN v ELSE heap[h]]

\* forward: every output := sum of the inputs + sum of the weights; a
\* loss layer returns a positive contribution, any other layer zero.
LayerForward(layer, heap) ==
    LET v == SumAt(heap, layer.input_blobs_data, 1) + SumAt(heap, layer.weights_data, 1)
    IN  [tensors |-> SetAll(heap, layer.output_blobs_data, v),
         loss |-> IF layer.config.kind = "loss" THEN 1 + v * v ELSE 0]

\* The gradient arriving at a layer from above: 1 at a loss layer, else
\* what the consumers of its outputs left in the output gradients.
Upstream(layer, heap) ==
    IF layer.config.kind = "loss" THEN 1
    ELSE SumAt(heap, layer.output_blobs_gradient, 1)

\* backward_input: unless skipped, the gradient of every input that needs
\* backward := the upstream gradient (1 at a loss layer).
LayerBackwardInput(layer, heap) ==
    IF layer.skip_backward THEN heap
    ELSE LET up == Upstream(layer, heap)
             need == {layer.input_blobs_gradient[j] :
                        j \in {k \in 1..Len(layer.input_blobs_gradient) :
                                  layer.input_need_backwards[k]}}
         IN  [h \in 1..Len(heap) |-> IF h \in need THEN up ELSE heap[h]]

\* backward_parameters: unless skipped, the upstream gradient is added to
\* (accumulated into) every owned weight gradient, once per reference the
\* layer holds to it; nothing to do without weights.
RECURSIVE Accumulate(_, _, _, _)
Accumulate(heap, handles, k, up) ==
    IF k > Len(handles) THEN heap
    ELSE Accumulate([heap EXCEPT ![handles[k]] = @ + up], handles, k + 1, up)

LayerBackwardParameters_NoSkip(layer, heap) ==
    Accumulate(heap, layer.weights_gradient, 1, 1)

LayerBackwardParameters(layer, heap) ==
    IF layer.skip_backward \/ layer.weights_gradient = <<>> THEN heap
    ELSE Accumulate(heap, layer.weights_gradient, 1, Upstream(layer, heap))

(***************************************************************************)
(* Network::forward_from_to                                                *)
(***************************************************************************)
\* r = [tensors, trace, loss, panicked]: the heap, the calls made on
\* layers so far, the running loss, whether the operation panicked.
\* A trace entry is <<method, layer index, value returned>> (0 when the
\* method returns nothing).
\* ForwardStep is the body of `for i in start..end`.
ForwardStep_LossAssign(net, r, i, end) ==
    LET f == LayerForward(net.layers[i + 1], r.tensors)
        fwd == Append(r.trace, <<"forward", i, f.loss>>)
    IN  [r EXCEPT
            !.tensors = f.tensors,
            !.loss = f.loss,
            !.trace = IF i = end - 1 THEN Append(fwd, <<"synchronize", i, 0>>) ELSE fwd]

ForwardStep_SyncEach(net, r, i, end) ==
    LET f == LayerForward(net.layers[i + 1], r.tensors)
        fwd == Append(r.trace, <<"forward", i, f.loss>>)
    IN  [r EXCEPT
            !.tensors = f.tensors,
            !.loss = @ + f.loss,
            !.trace = Append(fwd, <<"synchronize", i, 0>>)]

ForwardStep(net, r, i, end) ==
    LET f == LayerForward(net.layers[i + 1], r.tensors)
        fwd == Append(r.trace, <<"forward", i, f.loss>>)
    IN  [r EXCEPT
            !.tensors = f.tensors,
            !.loss = @ + f.loss,
            !.trace = IF i = end - 1 THEN Append(fwd, <<"synchronize", i, 0>>) ELSE fwd]

RECURSIVE ForwardLoop(_, _, _, _)
ForwardLoop(net, r, i, end) ==
    IF i >= end THEN r
    ELSE ForwardLoop(net, ForwardStep(net, r, i, end), i + 1, end)

ForwardFromTo_AssertLast(net, heap, start, end) ==
    LET r0 == [tensors |-> heap, trace |-> <<>>, loss |-> 0, panicked |-> FALSE]
        last == IF end > Len(net.layers) THEN Len(net.layers) ELSE end
        r == ForwardLoop(net, r0, start, last)
    IN  IF end > Len(net.layers) THEN [r EXCEPT !.panicked = TRUE] ELSE r

ForwardFromTo(net, heap, start, end) ==
    LET r0 == [tensors |-> heap, trace |-> <<>>, loss |-> 0, panicked |-> FALSE]
    IN  IF end > Len(net.layers)
        THEN [r0 EXCEPT !.panicked = TRUE]   \* assert!(end <= self.layers.len())
        ELSE ForwardLoop(net, r0, start, end)

(***************************************************************************)
(* Network::backward_input_from_to, backward_parameters_from_to            *)
(***************************************************************************)
\* The bodies of `for i in (end..start).rev()`; indexing self.layers[i]
\* with i >= len panics before the layer is called.
BackwardInputStep_SyncFirst(net, r, i, start, end) ==
    IF i >= Len(net.layers) THEN [r EXCEPT !.panicked = TRUE]
    ELSE LET bwd == Append(r.trace, <<"backward_input", i, 0>>)
         IN  [r EXCEPT
                !.tensors = LayerBackwardInput(net.layers[i + 1], r.tensors),
                !.trace = IF i = start - 1 THEN Append(bwd, <<"synchronize", i, 0>>) ELSE bwd]

BackwardInputStep(net, r, i, start, end) ==
    IF i >= Len(net.layers) THEN [r EXCEPT !.panicked = TRUE]
    ELSE LET bwd == Append(r.trace, <<"backward_input", i, 0>>)
         IN  [r EXCEPT
                !.tensors = LayerBackwardInput(net.layers[i + 1], r.tensors),
                !.trace = IF i = end THEN Append(bwd, <<"synchronize", i, 0>>) ELSE bwd]

BackwardParametersStep(net, r, i, start, end) ==
    IF i >= Len(net.layers) THEN [r EXCEPT !.panicked = TRUE]
    ELSE LET bwd == Append(r.trace, <<"backward_parameters", i, 0>>)
         IN  [r EXCEPT
                !.tensors = LayerBackwardParameters(net.layers[i + 1], r.tensors),
                !.trace = IF i = end THEN Append(bwd, <<"synchronize", i, 0>>) ELSE bwd]

RECURSIVE BackwardInputLoop(_, _, _, _, _)
BackwardInputLoop(net, r, i, start, end) ==
    IF i < end \/ r.panicked THEN r
    ELSE BackwardInputLoop(net, BackwardInputStep(net, r, i, start, end), i - 1, start, end)

RECURSIVE BackwardParametersLoop(_, _, _, _, _)
BackwardParametersLoop(net, r, i, start, end) ==
    IF i < end \/ r.panicked THEN r
    ELSE BackwardParametersLoop(net, BackwardParametersStep(net, r, i, start, end),
                                i - 1, start, end)

BackwardInputFromTo(net, r, start, end) ==
    BackwardInputLoop(net, r, start - 1, start, end)

BackwardParametersFromTo(net, r, start, end) ==
    BackwardParametersLoop(net, r, start - 1, start, end)

(***************************************************************************)
(* Network::backward                                                       *)
(***************************************************************************)
Backward_ParametersFirst(net, heap) ==
    LET r0 == [tensors |-> heap, trace |-> <<>>, loss |-> 0, panicked |-> FALSE]
        start == Len(net.layers)
    IN  BackwardInputFromTo(net, BackwardParametersFromTo(net, r0, start, 0), start, 0)

Backward_ClearFirst(net, heap) ==
    LET r0 == [tensors |-> SetAll(heap, net.learnable_weights_gradient, 0),
               trace |-> <<>>, loss |-> 0, panicked |-> FALSE]
        start == Len(net.layers)
    IN  BackwardParametersFromTo(net, BackwardInputFromTo(net, r0, start, 0), start, 0)

Backward(net, heap) ==
    LET r0 == [tensors |-> heap, trace |-> <<>>, loss |-> 0, panicked |-> FALSE]
        start == Len(net.layers)
    IN  BackwardParametersFromTo(net, BackwardInputFromTo(net, r0, start, 0), start, 0)

(***************************************************************************)
(* Network::clear_weight_diffs (FillerType::Constant { value: 0 })         *)
(***************************************************************************)
ClearWeightDiffs_Data(net, heap) ==
    SetAll(heap, net.learnable_weights_data, 0)

ClearWeightDiffs(net, heap) ==
    SetAll(heap, net.learnable_weights_gradient, 0)

(***************************************************************************)
(* Network::forward, Network::forward_backward                             *)
(***************************************************************************)
\* The body of `for (i, inp) in input.iter().enumerate()` (i is 0-based):
\* self.input_blobs_data[i] = inp.clone(), then inp.clone() into every
\* input slot of every layer whose name is self.input_blob_names[i].
BindInput_Register(net, i, inp) ==
    LET name == net.input_blob_names[i + 1]
        Bound(layer) ==
            [layer EXCEPT !.input_blobs_data =
                [blob_index \in 1..Len(layer.input_blobs_data) |->
                    IF layer.input_blob_names[blob_index] = name
                    THEN inp ELSE layer.input_blobs_data[blob_index]]]
    IN  [net EXCEPT
            !.input_blobs_data[i + 1] = inp,
            !.registry = Insert(@, name, <<inp, inp>>),
            !.layers = [k \in 1..Len(net.layers) |-> Bound(net.layers[k])]]

BindInput_NetworkOnly(net, i, inp) ==
    [net EXCEPT !.input_blobs_data[i + 1] = inp]

BindInput(net, i, inp) ==
    LET name == net.input_blob_names[i + 1]
        Bound(layer) ==
            [layer EXCEPT !.input_blobs_data =
                [blob_index \in 1..Len(layer.input_blobs_data) |->
                    IF layer.input_blob_names[blob_index] = name
                    THEN inp ELSE layer.input_blobs_data[blob_index]]]
    IN  [net EXCEPT
            !.input_blobs_data[i + 1] = inp,
            !.layers = [k \in 1..Len(net.layers) |-> Bound(net.layers[k])]]

\* b = [network, panicked]; indexing self.input_blobs_data[i] with
\* i >= len panics, leaving the inputs before i bound.
RECURSIVE BindInputs(_, _, _)
BindInputs(b, input, i) ==
    IF i >= Len(input) \/ b.panicked THEN b
    ELSE IF i >= Len(b.network.input_blobs_data)
    THEN [b EXCEPT !.panicked = TRUE]
    ELSE BindInputs([b EXCEPT !.network = BindInput(b.network, i, input[i + 1])],
                    input, i + 1)

\* forward(input, loss): bind, then forward_prefilled(Some(loss)), which
\* stores forward_from_to(0, layers.len()) into *loss.
Forward(net, heap, input) ==
    LET b == BindInputs([network |-> net, panicked |-> FALSE], input, 0)
        r == ForwardFromTo(b.network, heap, 0, Len(b.network.layers))
    IN  IF b.panicked
        THEN [network |-> b.network, tensors |-> heap, trace |-> <<>>,
              loss |-> 0, panicked |-> TRUE]
        ELSE [network |-> b.network, tensors |-> r.tensors, trace |-> r.trace,
              loss |-> r.loss, panicked |-> r.panicked]

\* forward_backward(bottom): forward(bottom, loss); backward(); *loss
ForwardBackward_BackwardFirst(net, heap, input) ==
    LET start == Len(net.layers)
        r0 == [tensors |-> heap, trace |-> <<>>, loss |-> 0, panicked |-> FALSE]
        bw == BackwardParametersFromTo(net, BackwardInputFromTo(net, r0, start, 0), start, 0)
        f == Forward(net, bw.tensors, input)
    IN  [f EXCEPT !.trace = bw.trace \o f.trace]

ForwardBackward(net, heap, input) ==
    LET f == Forward(net, heap, input)
    IN  IF f.panicked THEN f
        ELSE LET bw == Backward(f.network, f.tensors)
             IN  [f EXCEPT !.tensors = bw.tensors,
                           !.trace = f.trace \o bw.trace,
                           !.panicked = bw.panicked]

(***************************************************************************)
(* Network::update_weights, Network::get_data                              *)
(***************************************************************************)
\* axpy_plain(a, x, y): y := a * x + y
AxpyPlain(a, x, y) ==
    a * x + y

\* The body of the loop over learnable_weights_gradient zipped with
\* learnable_weights_data: both tensors are synchronized to the backend's
\* device, then axpy_plain(-1, gradient, data).  k is 1-based.
UpdateWeightsStep(net, r, k) ==
    LET weight_gradient == net.learnable_weights_gradient[k]
        weight_data == net.learnable_weights_data[k]
    IN  [r EXCEPT
            !.tensors[weight_data] =
                AxpyPlain(-1, r.tensors[weight_gradient], r.tensors[weight_data]),
            !.trace = @ \o << <<"sync", weight_gradient, 0>>,
                              <<"sync", weight_data, 0>>,
                              <<"axpy_plain", weight_data, -1>> >>]

RECURSIVE UpdateWeightsLoop(_, _, _)
UpdateWeightsLoop(net, r, k) ==
    IF k > Len(net.learnable_weights_gradient) \/ k > Len(net.learnable_weights_data)
    THEN r
    ELSE UpdateWeightsLoop(net, UpdateWeightsStep(net, r, k), k + 1)

UpdateWeights(net, heap) ==
    UpdateWeightsLoop(net, [tensors |-> heap, trace |-> <<>>, loss |-> 0,
                            panicked |-> FALSE], 1)

\* self.registry.get(name).unwrap().0.clone(): the data handle, or a
\* panic (handle 0 stands for no value returned)
GetData_OrDefault(net, name) ==
    IF name \in DOMAIN net.registry
    THEN [handle |-> net.registry[name][1], panicked |-> FALSE]
    ELSE [handle |-> 0, panicked |-> FALSE]

GetData(net, name) ==
    IF name \in DOMAIN net.registry
    THEN [handle |-> net.registry[name][1], panicked |-> FALSE]
    ELSE [handle |-> 0, panicked |-> TRUE]

\* The accessors the solver reads the learnable weights and their
\* multipliers through: each returns the field of its name.
LearnableWeightData(net) ==
    net.learnable_weights_data

LearnableWeightGradients(net) ==
    net.learnable_weights_gradient

WeightsWeightDecay(net) ==
    net.weights_weight_decay

WeightsLr(net) ==
    net.weights_lr

(***************************************************************************)
(* Momentum::compute_update_value (src/src/solvers/sgd/momentum.rs)        *)
(***************************************************************************)
\* scal_plain(a, x): x := a * x
ScalPlain(a, x) ==
    a * x

\* copy_plain(x, y): y := x
CopyPlain(x, y) ==
    x

\* axpby_plain(a, x, b, y): y := a * x + b * y, a scal followed by an axpy
AxpbyPlain(a, x, b, y) ==
    AxpyPlain(a, x, ScalPlain(b, y))

\* Momentum::new: no history yet, no scratch tensor
MomentumNew ==
    [history |-> <<>>, lr_xx |-> <<>>]

\* self is the solver (its history handles, and the scratch tensor lr_xx
\* it creates on its first call); history_blob_id is 0-based, and
\* indexing self.history past its end panics.  Learning rates and the
\* momentum are modelled by integers.
ComputeUpdateValue_NoCopy(self, heap, config, weight_gradient, history_blob_id, global_lr, blob_lr) ==
    LET created == [self EXCEPT !.lr_xx = IF @ = <<>> THEN <<"lr_xx">> ELSE @]
    IN  IF history_blob_id >= Len(self.history)
        THEN [self |-> created, tensors |-> heap, panicked |-> TRUE]
        ELSE LET history_blob == self.history[history_blob_id + 1]
                 local_momentum == config.momentum
                 local_lr == global_lr * blob_lr
             IN  [self |-> created,
                  tensors |-> [heap EXCEPT ![history_blob] =
                                AxpbyPlain(local_lr, heap[weight_gradient],
                                           local_momentum, heap[history_blob])],
                  panicked |-> FALSE]

ComputeUpdateValue(self, heap, config, weight_gradient, history_blob_id, global_lr, blob_lr) ==
    LET created == [self EXCEPT !.lr_xx = IF @ = <<>> THEN <<"lr_xx">> ELSE @]
    IN  IF history_blob_id >= Len(self.history)
        THEN [self |-> created, tensors |-> heap, panicked |-> TRUE]
        ELSE LET history_blob == self.history[history_blob_id + 1]
                 local_momentum == config.momentum
                 local_lr == global_lr * blob_lr
                 updated == [heap EXCEPT ![history_blob] =
                                AxpbyPlain(local_lr, heap[weight_gradient],
                                           local_momentum, heap[history_blob])]
             IN  [self |-> created,
                  tensors |-> [updated EXCEPT ![weight_gradient] =
                                CopyPlain(updated[history_blob],
                                          updated[weight_gradient])],
                  panicked |-> FALSE]

(***************************************************************************)
(* Network::from_config as one function of the configuration               *)
(***************************************************************************)
\* for (input_name, input_shape) in config.inputs.iter().zip(config.input_shapes.iter()):
\* the zip ends with the shorter of the two lists.  (The shape sizes the
\* two tensors of the input, whose content is one abstract value here.)
RECURSIVE InitInputBlobs(_, _, _, _)
InitInputBlobs(s, inputs, input_shapes, k) ==
    IF k > Len(inputs) \/ k > Len(input_shapes) THEN s
    ELSE InitInputBlobs(InitInputBlob(s, inputs[k]), inputs, input_shapes, k + 1)

RECURSIVE InitLayers(_, _, _)
InitLayers(s, layer_configs, k) ==
    IF k > Len(layer_configs) \/ s.failed THEN s
    ELSE InitLayers(InitLayer(s, layer_configs[k]), layer_configs, k + 1)

Start ==
    [network |-> DefaultNetwork, tensors |-> <<>>,
     registry |-> EmptyRegistry, weight_registry |-> EmptyWeightRegistry,
     failed |-> FALSE]

\* The state after the two loops of init; .failed when init panicked.
Wired(config) ==
    InitLayers(InitInputBlobs(Start, config.inputs, config.input_shapes, 1),
               config.layers, 1)

\* Pipelines the execution specification starts from: a chain of up to
\* MaxChain layers on the external input "a", layer k reading the top of
\* layer k - 1 and writing its own top; each layer is a loss layer or a
\* "linear" layer owning one weight; built without force_backward, so
\* the layers after the last loss layer skip backward.
ChainLayer(k, kind) ==
    [inputs |-> <<IF k = 1 THEN "a" ELSE TopNames[k - 1]>>,
     outputs |-> <<TopNames[k]>>,
     kind |-> kind,
     weight |-> DefaultWeight, weight_shape |-> <<1>>,
     valid |-> TRUE, include |-> <<>>, exclude |-> <<>>]

RunConfigs ==
    {[inputs |-> <<"a">>, input_shapes |-> << <<1>> >>,
      layers |-> [k \in 1..Len(kinds) |-> ChainLayer(k, kinds[k])],
      force_backward |-> FALSE, state |-> DefaultState] :
        kinds \in UNION {[1..n -> {"linear", "loss"}] : n \in 0..MaxChain}}

\* the number of iterations of the input loop of init
InputIterations(config) ==
    IF Len(config.inputs) <= Len(config.input_shapes)
    THEN Len(config.inputs) ELSE Len(config.input_shapes)

(***************************************************************************)
(* Construction, one step of Network::init at a time                       *)
(***************************************************************************)
InitBuild ==
    /\ network = DefaultNetwork
    /\ tensors = <<>>
    /\ registry = EmptyRegistry
    /\ pc = "inputs"
    /\ input_id = 0
    /\ call = [fn |-> "from_config", args |-> <<>>]
    /\ trace = <<>>
    /\ loss = 0
    /\ solver = MomentumNew

\* (the configurations built step by step name no weight, so the
\* weight_registry of init is empty at every step)
Here ==
    [network |-> network, tensors |-> tensors, registry |-> registry,
     weight_registry |-> EmptyWeightRegistry, failed |-> FALSE]

\* one iteration of the input loop of init
StepInitInputBlob ==
    /\ pc = "inputs"
    /\ input_id < MaxInputs
    /\ \E blob_name \in InputNames :
        LET s == InitInputBlob(Here, blob_name)
        IN  /\ network' = s.network
            /\ tensors' = s.tensors
            /\ registry' = s.registry
            /\ call' = [fn |-> "init_input_blob", args |-> <<blob_name>>]
    /\ input_id' = input_id + 1
    /\ UNCHANGED <<pc, trace, loss, solver>>

\* one iteration of the layer loop of init
StepInitLayer ==
    /\ pc \in {"inputs", "layers"}
    /\ Len(network.layers) < MaxLayers
    /\ \E layer_config \in LayerConfigs(Len(network.layers) + 1) :
        LET s == InitLayer(Here, layer_config)
        IN  /\ network' = s.network
            /\ tensors' = s.tensors
            /\ registry' = s.registry
            /\ pc' = IF s.failed THEN "panicked" ELSE "layers"
            /\ call' = [fn |-> "init_layer", args |-> <<layer_config>>]
    /\ UNCHANGED <<input_id, trace, loss, solver>>

\* the rest of init, and the return of from_config
StepInitFinish ==
    /\ pc \in {"inputs", "layers"}
    /\ \E force_backward \in BOOLEAN, order \in Perms(DOMAIN registry) :
        LET s == InitFinish(Here, force_backward, order)
        IN  /\ network' = s.network
            /\ tensors' = s.tensors
            /\ registry' = s.registry
            /\ trace' = s.trace
            /\ pc' = IF s.failed THEN "panicked" ELSE "built"
            /\ call' = [fn |-> "init", args |-> <<force_backward>>]
    /\ UNCHANGED <<input_id, loss, solver>>

NextBuild ==
    \/ StepInitInputBlob
    \/ StepInitLayer
    \/ StepInitFinish

SpecBuild ==
    InitBuild /\ [][NextBuild]_vars

(***************************************************************************)
(* Execution on a built network, one public operation per step             *)
(***************************************************************************)
InitRun ==
    \E config \in RunConfigs :
        LET w == Wired(config)
        IN  /\ ~w.failed
            /\ \E order \in Perms(DOMAIN w.registry) :
                LET s == InitFinish(w, config.force_backward, order)
                IN  /\ ~s.failed
                    /\ network = s.network
                    /\ tensors = s.tensors
                    /\ registry = s.registry
                    /\ trace = s.trace
                    /\ call = [fn |-> "init", args |-> <<config.force_backward>>]
            /\ input_id = Len(config.inputs)
            /\ pc = "built"
            /\ loss = 0
            /\ solver = MomentumNew

\* Range arguments offered to the *_from_to operations: every index of
\* the pipeline (Indices), or every index and one past the end of the
\* pipeline (PastEnd).
Indices ==
    0..Len(network.layers)

PastEnd ==
    0..(Len(network.layers) + 1)

\* Every learnable weight gradient is zero, as clear_weight_diffs leaves
\* them: the state in which a solver starts the parameter pass of a
\* minibatch.  The parameter passes are taken from such states only,
\* which keeps the accumulated gradients bounded.
Cleared ==
    \A k \in 1..Len(network.learnable_weights_gradient) :
        tensors[network.learnable_weights_gradient[k]] = 0

\* The effects common to all operations: r is the result record of the
\* operation's body.
Returns(r) ==
    /\ tensors' = r.tensors
    /\ trace' = r.trace
    /\ pc' = IF r.panicked THEN "panicked" ELSE "built"
    /\ UNCHANGED <<network, registry, input_id, solver>>

Idle ==
    [tensors |-> tensors, trace |-> <<>>, loss |-> 0, panicked |-> FALSE]

CallForwardFromTo ==
    /\ pc = "built"
    /\ \E start \in Indices, end \in PastEnd :
        LET r == ForwardFromTo(network, tensors, start, end)
        IN  /\ Returns(r)
            /\ loss' = IF r.panicked THEN loss ELSE r.loss
            /\ call' = [fn |-> "forward_from_to", args |-> <<start, end>>]

\* forward_prefilled(Some(loss)): *loss = forward_from_to(0, layers.len())
CallForwardPrefilled ==
    /\ pc = "built"
    /\ LET r == ForwardFromTo(network, tensors, 0, Len(network.layers))
       IN  /\ Returns(r)
           /\ loss' = r.loss
           /\ call' = [fn |-> "forward_prefilled", args |-> <<>>]

CallBackward ==
    /\ pc = "built"
    /\ Cleared
    /\ Returns(Backward(network, tensors))
    /\ call' = [fn |-> "backward", args |-> <<>>]
    /\ UNCHANGED loss

\* backward_input(): backward_input_from_to(layers.len(), 0)
CallBackwardInput ==
    /\ pc = "built"
    /\ Returns(BackwardInputFromTo(network, Idle, Len(network.layers), 0))
    /\ call' = [fn |-> "backward_input", args |-> <<>>]
    /\ UNCHANGED loss

\* backward_parameters(): backward_parameters_from_to(layers.len(), 0)
CallBackwardParameters ==
    /\ pc = "built"
    /\ Cleared
    /\ Returns(BackwardParametersFromTo(network, Idle, Len(network.layers), 0))
    /\ call' = [fn |-> "backward_parameters", args |-> <<>>]
    /\ UNCHANGED loss

CallBackwardInputFromTo ==
    /\ pc = "built"
    /\ \E start \in PastEnd, end \in PastEnd :
        /\ Returns(BackwardInputFromTo(network, Idle, start, end))
        /\ call' = [fn |-> "backward_input_from_to", args |-> <<start, end>>]
    /\ UNCHANGED loss

CallBackwardParametersFromTo ==
    /\ pc = "built"
    /\ Cleared
    /\ \E start \in PastEnd, end \in PastEnd :
        /\ Returns(BackwardParametersFromTo(network, Idle, start, end))
        /\ call' = [fn |-> "backward_parameters_from_to", args |-> <<start, end>>]
    /\ UNCHANGED loss

CallClearWeightDiffs ==
    /\ pc = "built"
    /\ Returns([Idle EXCEPT !.tensors = ClearWeightDiffs(network, tensors)])
    /\ call' = [fn |-> "clear_weight_diffs", args |-> <<>>]
    /\ UNCHANGED loss

NextRun ==
    \/ CallForwardFromTo
    \/ CallForwardPrefilled
    \/ CallBackward
    \/ CallBackwardInput
    \/ CallBackwardParameters
    \/ CallBackwardInputFromTo
    \/ CallBackwardParametersFromTo
    \/ CallClearWeightDiffs

SpecRun ==
    InitRun /\ [][NextRun]_vars

(***************************************************************************)
(* A training loop on a built network: the caller feeds its own buffers    *)
(* through forward / forward_backward, accumulates and clears gradients.   *)
(***************************************************************************)
\* number of buffers the caller owns and may supply as inputs
MaxExternal == 3
\* longest pipeline the training specification starts from
MaxTrain == 2
\* largest accumulated weight gradient from which backward is still taken
MaxGrad == 2

\* Pipelines of the training specification, on two external inputs "a"
\* and "b", in three shapes: a "chain" (layer k reads the top of layer
\* k - 1, the first reads "a"), a "fanout" (every layer reads "a" and
\* writes it in place, so several input slots carry the name "a"), and a
\* "split" (the first layer reads "a", the second "b", later ones chain).
TrainLayer(shape, k, kind) ==
    LET bottom == CASE shape = "fanout" -> "a"
                    [] k = 1 -> "a"
                    [] shape = "split" /\ k = 2 -> "b"
                    [] OTHER -> TopNames[k - 1]
    IN  [inputs |-> <<bottom>>,
         outputs |-> <<IF shape = "fanout" THEN bottom ELSE TopNames[k]>>,
         kind |-> kind,
         weight |-> DefaultWeight, weight_shape |-> <<1>>,
         valid |-> TRUE, include |-> <<>>, exclude |-> <<>>]

TrainConfigs ==
    {[inputs |-> <<"a", "b">>, input_shapes |-> << <<1>>, <<1>> >>,
      layers |-> [k \in 1..Len(kinds) |-> TrainLayer(shape, k, kinds[k])],
      force_backward |-> FALSE, state |-> DefaultState] :
        shape \in {"chain", "fanout", "split"},
        kinds \in UNION {[1..n -> {"linear", "loss"}] : n \in 0..MaxTrain}}

\* the caller's buffers: allocated after construction, holding 1, 2, ..
ExternalContents ==
    [k \in 1..MaxExternal |-> k]

InitTrain ==
    \E config \in TrainConfigs :
        LET w == Wired(config)
        IN  /\ ~w.failed
            /\ LET order == CHOOSE p \in Perms(DOMAIN w.registry) : TRUE
                   s == InitFinish(w, config.force_backward, order)
               IN  /\ ~s.failed
                    /\ network = s.network
                    /\ tensors = s.tensors \o ExternalContents
                    /\ registry = s.registry
                    /\ trace = s.trace
                    /\ call = [fn |-> "init", args |-> <<config.force_backward>>]
            /\ input_id = Len(config.inputs)
            /\ pc = "built"
            /\ loss = 0
            /\ solver = MomentumNew

\* the slices of buffers a caller supplies: its buffers in allocation
\* order or in reverse, cut to any length (one that is longer than the
\* list of declared inputs included)
SuppliedInputs ==
    LET first == Len(tensors) - MaxExternal
        up == [k \in 1..MaxExternal |-> first + k]
        down == [k \in 1..MaxExternal |-> Len(tensors) + 1 - k]
    IN  {SubSeq(s, 1, n) : s \in {up, down}, n \in 0..MaxExternal}

GradientsBelow(bound) ==
    \A k \in 1..Len(network.learnable_weights_gradient) :
        tensors[network.learnable_weights_gradient[k]] < bound

CallForward ==
    /\ pc = "built"
    /\ \E input \in SuppliedInputs :
        LET r == Forward(network, tensors, input)
        IN  /\ network' = r.network
            /\ tensors' = r.tensors
            /\ trace' = r.trace
            /\ loss' = IF r.panicked THEN loss ELSE r.loss
            /\ pc' = IF r.panicked THEN "panicked" ELSE "built"
            /\ call' = [fn |-> "forward", args |-> <<input>>]
    /\ UNCHANGED <<registry, input_id, solver>>

CallForwardBackward ==
    /\ pc = "built"
    /\ GradientsBelow(MaxGrad)
    /\ \E input \in SuppliedInputs :
        LET r == ForwardBackward(network, tensors, input)
        IN  /\ network' = r.network
            /\ tensors' = r.tensors
            /\ trace' = r.trace
            /\ loss' = IF r.panicked THEN loss ELSE r.loss
            /\ pc' = IF r.panicked THEN "panicked" ELSE "built"
            /\ call' = [fn |-> "forward_backward", args |-> <<input>>]
    /\ UNCHANGED <<registry, input_id, solver>>

\* backward() on gradients that may hold earlier contributions
CallBackwardAccumulate ==
    /\ pc = "built"
    /\ GradientsBelow(MaxGrad)
    /\ Returns(Backward(network, tensors))
    /\ call' = [fn |-> "backward", args |-> <<>>]
    /\ UNCHANGED loss

NextTrain ==
    \/ CallForward
    \/ CallForwardBackward
    \/ CallBackwardAccumulate
    \/ CallClearWeightDiffs

SpecTrain ==
    InitTrain /\ [][NextTrain]_vars

(***************************************************************************)
(* Networks built from one configuration, again and again, and fed by the  *)
(* caller: the registry of init is a HashMap, whose iteration order is     *)
(* seeded per map, so every build may collect the outputs in any order.    *)
(***************************************************************************)
InitTwin ==
    /\ network = DefaultNetwork
    /\ tensors = <<>>
    /\ registry = EmptyRegistry
    /\ pc = "config"
    /\ input_id = 0
    /\ \E config \in TrainConfigs : call = [fn |-> "config", args |-> <<config>>]
    /\ trace = <<>>
    /\ loss = 0
    /\ solver = MomentumNew

\* Network::from_config(backend, &config) as one step, on the
\* configuration the caller holds: the first network, or one more network
\* from the same configuration (in a heap of its own, followed by the
\* caller's buffers).
CallFromConfigAnyOrder ==
    /\ \/ pc = "config"
       \/ pc = "built" /\ call.fn = "from_config"
    /\ LET config == call.args[1]
           w == Wired(config)
       IN  \E order \in Perms(DOMAIN w.registry) :
            LET s == IF w.failed THEN Panicked
                     ELSE InitFinish(w, config.force_backward, order)
            IN  /\ network' = s.network
                /\ tensors' = IF s.failed THEN s.tensors
                              ELSE s.tensors \o ExternalContents
                /\ registry' = s.registry
                /\ pc' = IF s.failed THEN "panicked" ELSE "built"
                /\ input_id' = InputIterations(config)
                /\ call' = [fn |-> "from_config", args |-> <<config>>]
    /\ UNCHANGED <<trace, loss, solver>>

NextTwin ==
    \/ CallFromConfigAnyOrder
    \/ CallForward

SpecTwin ==
    InitTwin /\ [][NextTwin]_vars

(***************************************************************************)
(* Construction of pipelines with named (shared) weights, in one step,     *)
(* followed by gradient accumulation and weight updates.                   *)
(***************************************************************************)
\* longest chain of weighted layers of a sharing configuration
MaxShare == 2

\* weight descriptors and shapes offered to a weighted layer
WeightChoices ==
    {[weight |-> [DefaultWeight EXCEPT !.lr_mult = <<2>>, !.decay_mult = <<0>>],
      weight_shape |-> <<2, 2>>],
     [weight |-> [DefaultWeight EXCEPT !.name = "w"], weight_shape |-> <<2, 2>>],
     [weight |-> [DefaultWeight EXCEPT !.name = "w"], weight_shape |-> <<4>>],
     [weight |-> [DefaultWeight EXCEPT !.name = "w", !.share_mode = "Permissive"],
      weight_shape |-> <<4>>],
     [weight |-> [DefaultWeight EXCEPT !.name = "w", !.share_mode = "Permissive"],
      weight_shape |-> <<3>>]}

\* a chain of weighted layers on the input "a", closed by a loss layer
ShareConfigs ==
    {[inputs |-> <<"a">>, input_shapes |-> << <<1>> >>,
      layers |-> [k \in 1..(Len(ws) + 1) |->
                    IF k <= Len(ws)
                    THEN [ChainLayer(k, "linear") EXCEPT
                            !.weight = ws[k].weight,
                            !.weight_shape = ws[k].weight_shape]
                    ELSE ChainLayer(k, "loss")],
      force_backward |-> FALSE, state |-> DefaultState] :
        ws \in UNION {[1..n -> WeightChoices] : n \in 1..MaxShare}}

InitShare ==
    /\ network = DefaultNetwork
    /\ tensors = <<>>
    /\ registry = EmptyRegistry
    /\ pc = "config"
    /\ input_id = 0
    /\ \E config \in ShareConfigs : call = [fn |-> "config", args |-> <<config>>]
    /\ trace = <<>>
    /\ loss = 0
    /\ solver = MomentumNew

\* Network::from_config(backend, &config) as one step
CallFromConfig ==
    /\ pc = "config"
    /\ LET config == call.args[1]
           w == Wired(config)
           order == CHOOSE p \in Perms(DOMAIN w.registry) : TRUE
           s == IF w.failed THEN Panicked
                ELSE InitFinish(w, config.force_backward, order)
       IN  /\ network' = s.network
           /\ tensors' = s.tensors
           /\ registry' = s.registry
           /\ pc' = IF s.failed THEN "panicked" ELSE "built"
           /\ input_id' = InputIterations(config)
           /\ call' = [fn |-> "from_config", args |-> <<config>>]
    /\ UNCHANGED <<trace, loss, solver>>

DataAbove(bound) ==
    \A k \in 1..Len(network.learnable_weights_data) :
        tensors[network.learnable_weights_data[k]] > bound

CallUpdateWeights ==
    /\ pc = "built"
    /\ DataAbove(-MaxGrad)
    /\ Returns(UpdateWeights(network, tensors))
    /\ call' = [fn |-> "update_weights", args |-> <<>>]
    /\ UNCHANGED loss

\* get_data(name); the handle returned is recorded as the one entry of
\* `trace`
CallGetData ==
    /\ pc = "built"
    /\ \E name \in BlobNames :
        LET r == GetData(network, name)
        IN  /\ trace' = IF r.panicked THEN <<>> ELSE <<r.handle>>
            /\ pc' = IF r.panicked THEN "panicked" ELSE "built"
            /\ call' = [fn |-> "get_data", args |-> <<name>>]
    /\ UNCHANGED <<network, tensors, registry, input_id, loss, solver>>

NextShare ==
    \/ CallFromConfig
    \/ CallBackwardAccumulate
    \/ CallClearWeightDiffs
    \/ CallUpdateWeights
    \/ CallGetData

SpecShare ==
    InitShare /\ [][NextShare]_vars

(***************************************************************************)
(* Every operation of a built network, in any order: the training loop     *)
(* with partial forward passes and weight updates.                         *)
(***************************************************************************)
\* longest pipeline this specification starts from
MaxFrame == 2
\* largest magnitude of a content of the network's own tensors from which
\* an operation is still taken
MaxContent == 1

FrameConfigs ==
    {[inputs |-> <<"a", "b">>, input_shapes |-> << <<1>>, <<1>> >>,
      layers |-> [k \in 1..Len(kinds) |-> TrainLayer(shape, k, kinds[k])],
      force_backward |-> FALSE, state |-> DefaultState] :
        shape \in {"chain", "fanout", "split"},
        kinds \in UNION {[1..n -> {"linear", "loss"}] : n \in 0..MaxFrame}}

InitFrame ==
    \E config \in FrameConfigs :
        LET w == Wired(config)
        IN  /\ ~w.failed
            /\ LET order == CHOOSE p \in Perms(DOMAIN w.registry) : TRUE
                   s == InitFinish(w, config.force_backward, order)
               IN  /\ ~s.failed
                    /\ network = s.network
                    /\ tensors = s.tensors \o ExternalContents
                    /\ registry = s.registry
                    /\ trace = s.trace
                    /\ call = [fn |-> "init", args |-> <<config.force_backward>>]
            /\ input_id = Len(config.inputs)
            /\ pc = "built"
            /\ loss = 0
            /\ solver = MomentumNew

\* the tensors the network allocated (the caller's follow them)
Small ==
    \A h \in 1..(Len(tensors) - MaxExternal) :
        tensors[h] \in -MaxContent..MaxContent

NextFrame ==
    \/ Small /\ CallForward
    \/ Small /\ CallForwardPrefilled
    \/ Small /\ CallForwardFromTo
    \/ Small /\ CallBackwardAccumulate
    \/ Small /\ CallClearWeightDiffs
    \/ Small /\ CallUpdateWeights

SpecFrame ==
    InitFrame /\ [][NextFrame]_vars

(***************************************************************************)
(* Construction from configurations whose layers may fail validation or    *)
(* carry rules on the network state, followed by full passes.              *)
(***************************************************************************)
\* longest pipeline of such a configuration
MaxConfig == 2

NetworkModes ==
    {"Train", "Test"}

Rules ==
    {<<>>} \cup {<<[mode |-> m]>> : m \in NetworkModes}

\* a chain on the input "a", closed by a loss layer
StateConfigs ==
    {[inputs |-> <<"a">>, input_shapes |-> << <<1>> >>,
      layers |-> [k \in 1..Len(ls) |->
                    [ChainLayer(k, IF k = Len(ls) THEN "loss" ELSE "linear") EXCEPT
                        !.valid = ls[k].valid,
                        !.include = ls[k].include,
                        !.exclude = ls[k].exclude]],
      force_backward |-> FALSE,
      state |-> [DefaultState EXCEPT !.mode = mode]] :
        mode \in NetworkModes,
        ls \in UNION {[1..n -> [valid : BOOLEAN, include : Rules,
                                exclude : {<<>>, <<[mode |-> "Train"]>>}]] :
                      n \in 1..MaxConfig}}

InitConfig ==
    /\ network = DefaultNetwork
    /\ tensors = <<>>
    /\ registry = EmptyRegistry
    /\ pc = "config"
    /\ input_id = 0
    /\ \E config \in StateConfigs : call = [fn |-> "config", args |-> <<config>>]
    /\ trace = <<>>
    /\ loss = 0
    /\ solver = MomentumNew

NextConfig ==
    \/ CallFromConfig
    \/ CallForwardPrefilled
    \/ CallBackward

SpecConfig ==
    InitConfig /\ [][NextConfig]_vars

(***************************************************************************)
(* WeightConfig::check_dimensions applied to two blobs                     *)
(***************************************************************************)
\* largest number of dimensions, and largest dimension, of a blob shape
MaxRank == 2

MaxDim == 3

Shapes ==
    UNION {[1..n -> 1..MaxDim] : n \in 0..MaxRank}

WeightConfigs ==
    {[DefaultWeight EXCEPT !.name = "w", !.share_mode = m] :
        m \in {"Strict", "Permissive"}}

InitCheck ==
    /\ network = DefaultNetwork
    /\ tensors = <<>>
    /\ registry = EmptyRegistry
    /\ pc = "check"
    /\ input_id = 0
    /\ \E self \in WeightConfigs, blob_one \in Shapes, blob_two \in Shapes :
        call = [fn |-> "check_dimensions", args |-> <<self, blob_one, blob_two>>]
    /\ trace = <<>>
    /\ loss = 0
    /\ solver = MomentumNew

\* the value returned is recorded as the one entry of `trace`
CallCheckDimensions ==
    /\ pc = "check"
    /\ trace' = <<CheckDimensions(call.args[1], call.args[2], call.args[3])>>
    /\ pc' = "checked"
    /\ UNCHANGED <<network, tensors, registry, input_id, call, loss, solver>>

NextCheck ==
    CallCheckDimensions

SpecCheck ==
    InitCheck /\ [][NextCheck]_vars

(***************************************************************************)
(* WeightConfig::default, lr_mult and decay_mult on a weight descriptor    *)
(***************************************************************************)
\* largest configured multiplier
MaxMult == 2

Multipliers ==
    {<<>>} \cup {<<v>> : v \in 0..MaxMult}

MultConfigs ==
    {[name |-> n, share_mode |-> m, lr_mult |-> l, decay_mult |-> d, filler |-> f] :
        n \in {"", "w"}, m \in {"Strict", "Permissive"},
        l \in Multipliers, d \in Multipliers,
        f \in {<<>>, <<[value |-> 0]>>}}

InitMult ==
    /\ network = DefaultNetwork
    /\ tensors = <<>>
    /\ registry = EmptyRegistry
    /\ pc = "check"
    /\ input_id = 0
    /\ \E self \in MultConfigs : call = [fn |-> "weight_config", args |-> <<self>>]
    /\ trace = <<>>
    /\ loss = 0
    /\ solver = MomentumNew

\* WeightConfig::default(): the descriptor the later calls are made on
CallDefault ==
    /\ pc = "check"
    /\ call.fn = "weight_config"
    /\ call' = [fn |-> "default", args |-> <<DefaultWeight>>]
    /\ UNCHANGED <<network, tensors, registry, pc, input_id, trace, loss, solver>>

\* the value returned is recorded as the one entry of `trace`
CallLrMult ==
    /\ pc = "check"
    /\ trace' = <<LrMult(call.args[1])>>
    /\ call' = [fn |-> "lr_mult", args |-> call.args]
    /\ pc' = "checked"
    /\ UNCHANGED <<network, tensors, registry, input_id, loss, solver>>

CallDecayMult ==
    /\ pc = "check"
    /\ trace' = <<DecayMult(call.args[1])>>
    /\ call' = [fn |-> "decay_mult", args |-> call.args]
    /\ pc' = "checked"
    /\ UNCHANGED <<network, tensors, registry, input_id, loss, solver>>

NextMult ==
    \/ CallDefault
    \/ CallLrMult
    \/ CallDecayMult

SpecMult ==
    InitMult /\ [][NextMult]_vars

(***************************************************************************)
(* FillerType::fill applied to a tensor                                    *)
(***************************************************************************)
\* largest number of elements of a filled tensor
MaxSize == 2
\* largest element, and largest fill value
MaxValue == 1

Devices ==
    {"native", "cuda"}

\* a tensor whose latest copy is on one device, and which may track a
\* (stale) copy on the other
SharedTensors ==
    UNION {UNION {
        {[latest_location |-> d, copies |-> [x \in {d} |-> e]] :
            e \in [1..n -> 0..MaxValue]}
        \cup {[latest_location |-> d, copies |-> [x \in Devices |-> IF x = d THEN e ELSE o]] :
                e \in [1..n -> 0..MaxValue], o \in [1..n -> 0..MaxValue]} :
            d \in Devices} : n \in 1..MaxSize}

Fillers ==
    {[type |-> "Constant", value |-> v] : v \in 0..MaxValue}

\* the tensor to fill is the one tensor of the heap
InitFill ==
    /\ network = DefaultNetwork
    /\ \E weight \in SharedTensors : tensors = <<weight>>
    /\ registry = EmptyRegistry
    /\ pc = "check"
    /\ input_id = 0
    /\ \E self \in Fillers : call = [fn |-> "filler", args |-> <<self>>]
    /\ trace = <<>>
    /\ loss = 0
    /\ solver = MomentumNew

CallFill ==
    /\ pc = "check"
    /\ LET r == Fill(call.args[1], tensors[1])
       IN  /\ tensors' = <<r.weight>>
           /\ trace' = r.trace
           /\ pc' = IF r.panicked THEN "panicked" ELSE "checked"
    /\ call' = [fn |-> "fill", args |-> call.args]
    /\ UNCHANGED <<network, registry, input_id, loss, solver>>

NextFill ==
    CallFill

SpecFill ==
    InitFill /\ [][NextFill]_vars

(***************************************************************************)
(* Momentum::compute_update_value applied to the gradient of a weight      *)
(***************************************************************************)
\* largest learning rate (global and per blob) and largest momentum
MaxRate == 1

\* Two learnable weights: data at handles 1 and 2, gradients at 3 and 4,
\* and the solver's history of each at 5 and 6.
InitMomentum ==
    /\ network = [DefaultNetwork EXCEPT
                    !.learnable_weights_data = <<1, 2>>,
                    !.learnable_weights_gradient = <<3, 4>>]
    /\ \E d \in 0..MaxValue, g \in [1..2 -> 0..MaxValue], h \in [1..2 -> 0..MaxValue] :
            tensors = <<d, d>> \o g \o h
    /\ registry = EmptyRegistry
    /\ pc = "check"
    /\ input_id = 0
    /\ \E lr_xx \in {<<>>, <<"lr_xx">>} :
            solver = [history |-> <<5, 6>>, lr_xx |-> lr_xx]
    /\ \E momentum \in 0..MaxRate, weight_gradient \in {3, 4}, history_blob_id \in 0..2,
          global_lr \in 0..MaxRate, blob_lr \in 0..MaxRate :
            call = [fn |-> "solver",
                    args |-> <<[momentum |-> momentum],
                               weight_gradient, history_blob_id, global_lr, blob_lr>>]
    /\ trace = <<>>
    /\ loss = 0

\* compute_update_value(config, weight_gradient, history_blob_id,
\* global_lr, blob_lr) on the solver
CallComputeUpdateValue ==
    /\ pc = "check"
    /\ LET r == ComputeUpdateValue(solver, tensors, call.args[1], call.args[2],
                                   call.args[3], call.args[4], call.args[5])
       IN  /\ tensors' = r.tensors
           /\ solver' = r.self
           /\ pc' = IF r.panicked THEN "panicked" ELSE "checked"
           /\ call' = [fn |-> "compute_update_value", args |-> call.args]
    /\ UNCHANGED <<network, registry, input_id, trace, loss>>

NextMomentum ==
    CallComputeUpdateValue

SpecMomentum ==
    InitMomentum /\ [][NextMomentum]_vars

(***************************************************************************)
(* Vocabulary of the properties                                            *)
(***************************************************************************)
NumLayers ==
    Len(network.layers)

IsForward(e) ==
    e[1] = "forward"

IsSynchronize(e) ==
    e[1] = "synchronize"

IsLayerStep(e) ==
    e[1] # "synchronize"

RECURSIVE SumReturned(_, _)
SumReturned(entries, k) ==
    IF k > Len(entries) THEN 0
    ELSE entries[k][3] + SumReturned(entries, k + 1)

\* the last operation was fn and it returned (it did not panic)
Returned(fn) ==
    call.fn = fn /\ pc = "built"

(***************************************************************************)
(* Properties of forward_from_to and backward (SpecRun)                    *)
(***************************************************************************)
\* C1: after forward_from_to(start, end) with start <= end <= layer count,
\* the forward calls made are exactly one per layer of [start, end), in
\* increasing index order, and the value returned is the sum of the
\* values those forward calls returned (0 for an empty range).
C1_ForwardRangeInOrderAndSum ==
    (call.fn = "forward_from_to"
        /\ call.args[1] <= call.args[2] /\ call.args[2] <= NumLayers) =>
        LET forwards == SelectSeq(trace, IsForward)
        IN  /\ pc = "built"
            /\ Len(forwards) = call.args[2] - call.args[1]
            /\ \A k \in 1..Len(forwards) : forwards[k][2] = call.args[1] + k - 1
            /\ SelectSeq(trace, IsLayerStep) = forwards
            /\ loss = SumReturned(forwards, 1)

\* C1 witness: forward_from_to(0, 2) over two loss layers returned the
\* sum of two positive contributions.
C1_Witness ==
    /\ Returned("forward_from_to")
    /\ call.args = <<0, 2>>
    /\ Len(SelectSeq(trace, IsForward)) = 2
    /\ \A k \in 1..2 : SelectSeq(trace, IsForward)[k][3] > 0
    /\ loss = 2

\* C2: backward() calls backward_input once on every layer, last layer
\* first and layer 0 last, and then backward_parameters once on every
\* layer in the same decreasing order; every backward_input call comes
\* before every backward_parameters call.
C2_BackwardTwoReversePasses ==
    call.fn = "backward" =>
        LET steps == SelectSeq(trace, IsLayerStep)
        IN  /\ pc = "built"
            /\ Len(steps) = 2 * NumLayers
            /\ \A k \in 1..NumLayers :
                /\ steps[k] = <<"backward_input", NumLayers - k, 0>>
                /\ steps[NumLayers + k] = <<"backward_parameters", NumLayers - k, 0>>

\* C2 witness: backward() ran over a pipeline of at least two layers.
C2_Witness ==
    /\ Returned("backward")
    /\ NumLayers >= 2
    /\ trace[1] = <<"backward_input", NumLayers - 1, 0>>

\* C3 as stated: every call of forward_from_to(start, end) that returns
\* synchronizes exactly once, on layer end - 1.
C3_Original_ExactlyOneSyncEveryCall ==
    Returned("forward_from_to") =>
        SelectSeq(trace, IsSynchronize) = <<<<"synchronize", call.args[2] - 1, 0>>>>

\* C3 amended: a call of forward_from_to(start, end) over a non-empty
\* range (start < end <= layer count) synchronizes exactly once, on layer
\* end - 1, as the last thing the call does, right after that layer's
\* forward step; a call over an empty range synchronizes no layer.
C3_OneSyncAfterLastLayerOfNonEmptyRange ==
    Returned("forward_from_to") =>
        IF call.args[1] < call.args[2]
        THEN /\ SelectSeq(trace, IsSynchronize) = <<<<"synchronize", call.args[2] - 1, 0>>>>
             /\ trace[Len(trace)] = <<"synchronize", call.args[2] - 1, 0>>
             /\ trace[Len(trace) - 1][1] = "forward"
             /\ trace[Len(trace) - 1][2] = call.args[2] - 1
        ELSE trace = <<>>

\* C3 witness: forward_from_to(0, 2) made two forward steps and then
\* synchronized layer 1.
C3_Witness ==
    /\ Returned("forward_from_to")
    /\ call.args = <<0, 2>>
    /\ Len(trace) = 3
    /\ trace[3] = <<"synchronize", 1, 0>>

\* C4 as stated: each backward pass that returns synchronizes exactly
\* once, on the lowest-index layer of its range, and backward()
\* synchronizes exactly twice, both times on layer 0.
C4_Original_OneSyncPerBackwardPass ==
    /\ (Returned("backward_input_from_to") \/ Returned("backward_parameters_from_to")) =>
            SelectSeq(trace, IsSynchronize) = <<<<"synchronize", call.args[2], 0>>>>
    /\ Returned("backward") =>
            SelectSeq(trace, IsSynchronize) =
                <<<<"synchronize", 0, 0>>, <<"synchronize", 0, 0>>>>

\* C4 amended: a backward pass over a non-empty range (end < start <=
\* layer count) synchronizes exactly once, on layer end, right after that
\* layer's backward step, which is the last step of the pass; a pass over
\* an empty range synchronizes nothing.  backward() on a pipeline with at
\* least one layer synchronizes exactly twice, both times on layer 0, at
\* the end of each pass; on an empty pipeline it synchronizes nothing.
C4_OneSyncAfterLowestLayerOfNonEmptyRange ==
    /\ \A pass \in {<<"backward_input_from_to", "backward_input">>,
                     <<"backward_parameters_from_to", "backward_parameters">>} :
        Returned(pass[1]) =>
            IF call.args[2] < call.args[1]
            THEN /\ SelectSeq(trace, IsSynchronize) = <<<<"synchronize", call.args[2], 0>>>>
                 /\ trace[Len(trace)] = <<"synchronize", call.args[2], 0>>
                 /\ trace[Len(trace) - 1] = <<pass[2], call.args[2], 0>>
            ELSE trace = <<>>
    /\ Returned("backward") =>
            IF NumLayers >= 1
            THEN /\ SelectSeq(trace, IsSynchronize) =
                        <<<<"synchronize", 0, 0>>, <<"synchronize", 0, 0>>>>
                 /\ Len(trace) = 2 * NumLayers + 2
                 /\ trace[NumLayers] = <<"backward_input", 0, 0>>
                 /\ trace[NumLayers + 1] = <<"synchronize", 0, 0>>
                 /\ trace[2 * NumLayers + 1] = <<"backward_parameters", 0, 0>>
                 /\ trace[2 * NumLayers + 2] = <<"synchronize", 0, 0>>
            ELSE trace = <<>>

\* C4 witness: backward() over two layers synchronized layer 0 after each
\* of its two passes.
C4_Witness ==
    /\ Returned("backward")
    /\ NumLayers = 2
    /\ trace[3] = <<"synchronize", 0, 0>>
    /\ trace[6] = <<"synchronize", 0, 0>>

(***************************************************************************)
(* Properties of construction (SpecBuild)                                  *)
(***************************************************************************)
\* the step taken is a call of init_input_blob with a registered name
DuplicateInputStep ==
    /\ call'.fn = "init_input_blob"
    /\ input_id' = input_id + 1
    /\ call'.args[1] \in DOMAIN registry

\* the step taken wires a layer one of whose bottoms is not registered
UnmetBottomStep ==
    /\ call'.fn = "init_layer"
    /\ pc \in {"inputs", "layers"}
    /\ \E k \in 1..Len(call'.args[1].inputs) :
            call'.args[1].inputs[k] \notin DOMAIN registry

\* C5: wiring a layer that declares a bottom which is not in the registry
\* at that moment makes construction fail: the step ends in the panicked
\* position, the network under construction is gone, and a panicked
\* construction never leaves that position, so no network is returned.
C5_UnmetBottomFailsConstruction ==
    [][/\ UnmetBottomStep => (pc' = "panicked" /\ network' = DefaultNetwork)
       /\ pc = "panicked" => pc' = "panicked"]_vars

\* C5 witness: construction panicked while wiring a layer that declares
\* a bottom.
C5_Witness ==
    /\ pc = "panicked"
    /\ call.fn = "init_layer"
    /\ call.args[1].inputs # <<>>

\* C6 as stated: giving init_input_blob a name that is already
\* registered makes construction fail (it stops at the duplicate).
C6_DuplicateInputFailsConstruction ==
    [][DuplicateInputStep => pc' = "panicked"]_vars

\* C7: a call of init_input_blob with an already registered name
\* allocates no tensor, leaves the registry as it was (the name stays
\* bound to the first pair) and leaves every list of the network as it
\* was; so no input name is ever listed or allocated twice.
C7_DuplicateInputAllocatesNothing ==
    [][DuplicateInputStep =>
            /\ tensors' = tensors
            /\ registry' = registry
            /\ network' = network]_vars

\* C7 witness: the second call of init_input_blob repeated the name of
\* the first, and one input is listed.
C7_Witness ==
    /\ call.fn = "init_input_blob"
    /\ input_id = 2
    /\ network.input_blob_names = <<call.args[1]>>
    /\ Len(tensors) = 2

\* layer k2 > k takes data handle d as a bottom
ConsumedAfter(d, k) ==
    \E k2 \in (k + 1)..NumLayers : d \in Range(network.layers[k2].input_blobs_data)

\* Data handles registered by an external input or as a layer's top that
\* no layer wired afterwards takes as a bottom.
UnconsumedBuffers ==
    {d \in Range(network.input_blobs_data) : ~ConsumedAfter(d, 0)}
        \cup UNION {{d \in Range(network.layers[k].output_blobs_data) :
                        ~ConsumedAfter(d, k)} : k \in 1..NumLayers}

\* C8: after construction the output lists hold exactly the buffers that
\* were registered (as an external input or as a layer's top) and that no
\* layer wired afterwards consumes as a bottom, each exactly once, data
\* and gradient handle of one registered pair at the same index.
C8_OutputsAreTheUnconsumedBuffers ==
    pc = "built" =>
        /\ Range(network.output_blobs_data) = UnconsumedBuffers
        /\ Len(network.output_blobs_data) = Cardinality(UnconsumedBuffers)
        /\ Len(network.output_blobs_gradient) = Len(network.output_blobs_data)
        /\ \A i \in 1..Len(network.output_blobs_data) :
            \E n \in DOMAIN network.registry :
                network.registry[n] =
                    <<network.output_blobs_data[i], network.output_blobs_gradient[i]>>

\* C8 witness: a linear chain of three layers on one input; the only
\* output is the top of the third layer.
C8_Witness ==
    /\ pc = "built"
    /\ NumLayers = 3
    /\ Len(network.input_blobs_data) = 1
    /\ network.layers[1].input_blobs_data = network.input_blobs_data
    /\ network.layers[2].input_blobs_data = network.layers[1].output_blobs_data
    /\ network.layers[3].input_blobs_data = network.layers[2].output_blobs_data
    /\ \A k \in 1..3 : Len(network.layers[k].output_blobs_data) = 1
    /\ Cardinality(UNION {Range(network.layers[k].output_blobs_data) : k \in 1..3}) = 3
    /\ network.output_blobs_data = network.layers[3].output_blobs_data

\* Layer k is a loss layer, or one of its tops is a bottom of a later
\* layer that is itself on a path to a loss layer.
RECURSIVE OnLossPath(_)
OnLossPath(k) ==
    \/ network.layers[k].config.kind = "loss"
    \/ \E k2 \in (k + 1)..NumLayers :
        /\ Range(network.layers[k].output_blobs_data)
              \cap Range(network.layers[k2].input_blobs_data) # {}
        /\ OnLossPath(k2)

\* construction has returned a network built with force_backward = fb
BuiltWith(fb) ==
    pc = "built" /\ call.fn = "init" /\ call.args[1] = fb

\* C9: after construction with force_backward = false a layer has
\* skip_backward = true exactly when it is not on a path to a loss layer
\* (its output reaches no loss-contributing layer); for such a layer, and
\* only for such a layer, every input is flagged as not needing backward.
C9_SkipBackwardIffOffLossPath ==
    BuiltWith(FALSE) =>
        \A k \in 1..NumLayers :
            /\ network.layers[k].skip_backward = ~OnLossPath(k)
            /\ \A j \in 1..Len(network.layers[k].input_need_backwards) :
                network.layers[k].input_need_backwards[j] = OnLossPath(k)

\* C9 witness: layer 0 owns a weight and feeds only layer 1, which is not
\* a loss layer and has no top; layer 2 is a loss layer on another input.
\* Layers 0 and 1 skip backward, layer 2 does not.
C9_Witness ==
    /\ BuiltWith(FALSE)
    /\ NumLayers = 3
    /\ network.layers[1].weights_data # <<>>
    /\ network.layers[1].output_blobs_data # <<>>
    /\ network.layers[2].input_blobs_data = network.layers[1].output_blobs_data
    /\ network.layers[2].config.kind = "linear"
    /\ network.layers[3].config.kind = "loss"
    /\ network.layers[3].input_blobs_data # <<>>
    /\ network.layers[1].skip_backward
    /\ network.layers[2].skip_backward
    /\ ~network.layers[3].skip_backward

\* C11: after construction with force_backward = true no layer has
\* skip_backward = true, whether or not the layer is on a path to a loss
\* layer.
C11_ForceBackwardNoLayerSkips ==
    BuiltWith(TRUE) =>
        \A k \in 1..NumLayers : ~network.layers[k].skip_backward

\* C11 witness: a network built with force_backward = true in which a
\* weighted layer is off every path to a loss layer, next to a loss layer,
\* and neither skips backward.
C11_Witness ==
    /\ BuiltWith(TRUE)
    /\ \E k \in 1..NumLayers :
        /\ ~OnLossPath(k)
        /\ network.layers[k].weights_data # <<>>
        /\ ~network.layers[k].skip_backward
    /\ \E k \in 1..NumLayers :
        /\ network.layers[k].config.kind = "loss"
        /\ ~network.layers[k].skip_backward

(***************************************************************************)
(* Properties of forward and forward_backward (SpecTrain)                  *)
(***************************************************************************)
\* C12: a forward(inputs) that returns has put the i-th supplied handle,
\* for every supplied i, into the network's i-th input slot and into
\* every layer input slot named like the network's i-th declared input
\* (the handle itself: no tensor is allocated and no content is copied),
\* has left every other slot as it was, and has then run forward once on
\* every layer, in index order 0 .. layer count - 1, on the pipeline so
\* bound: the tensors, the trace and the loss are those of the full
\* forward range over the rebound slots.
C12_ForwardBindsSuppliedBuffers ==
    [][(call'.fn = "forward" /\ pc' = "built") =>
        LET input == call'.args[1]
            Match(name) == {i \in 1..Len(input) : network.input_blob_names[i] = name}
            forwards == SelectSeq(trace', IsForward)
            r == ForwardFromTo(network', tensors, 0, NumLayers)
        IN  /\ Len(input) <= Len(network.input_blob_names)
            /\ Len(tensors') = Len(tensors)
            /\ \A i \in 1..Len(input) : network'.input_blobs_data[i] = input[i]
            /\ Len(network'.layers) = NumLayers
            /\ \A k \in 1..NumLayers :
                \A j \in 1..Len(network.layers[k].input_blobs_data) :
                    LET m == Match(network.layers[k].input_blob_names[j])
                    IN  /\ \A i \in m : network'.layers[k].input_blobs_data[j] = input[i]
                        /\ m = {} => network'.layers[k].input_blobs_data[j]
                                        = network.layers[k].input_blobs_data[j]
            /\ Len(forwards) = NumLayers
            /\ \A k \in 1..NumLayers : forwards[k][2] = k - 1
            /\ tensors' = r.tensors /\ trace' = r.trace /\ loss' = r.loss]_vars

\* C12 witness: forward returned after two different buffers were
\* supplied; the first sits in the input slot of layer 0 and the second
\* in the input slot of layer 1, and the top of layer 0 holds the first
\* buffer's (nonzero) content.
C12_Witness ==
    /\ Returned("forward")
    /\ Len(call.args[1]) = 2
    /\ call.args[1][1] # call.args[1][2]
    /\ NumLayers = 2
    /\ network.layers[1].input_blobs_data = <<call.args[1][1]>>
    /\ network.layers[2].input_blobs_data = <<call.args[1][2]>>
    /\ network.layers[1].weights_data # <<>>
    /\ tensors[network.layers[1].output_blobs_data[1]] = tensors[call.args[1][1]]
    /\ tensors[call.args[1][1]] # 0

IsBackwardStep(e) ==
    e[1] \in {"backward_input", "backward_parameters"}

\* C13: a forward_backward(inputs) that returns has run the complete
\* forward pass (forward on every layer in increasing order, then the
\* synchronization of the last layer) and after it the complete backward
\* pass (backward_input on every layer, then backward_parameters on every
\* layer); no backward step comes before the last forward step or its
\* synchronization, and the value returned is the sum of the values the
\* forward steps of this call returned.
C13_ForwardBackwardOrderAndLoss ==
    Returned("forward_backward") =>
        LET n == NumLayers
            fwdlen == IF n = 0 THEN 0 ELSE n + 1
            fwd == SubSeq(trace, 1, fwdlen)
            bwd == SubSeq(trace, fwdlen + 1, Len(trace))
            forwards == SelectSeq(fwd, IsForward)
        IN  /\ Len(trace) >= fwdlen
            /\ Len(forwards) = n
            /\ \A k \in 1..n : fwd[k] = forwards[k] /\ forwards[k][2] = k - 1
            /\ n > 0 => fwd[fwdlen] = <<"synchronize", n - 1, 0>>
            /\ SelectSeq(bwd, IsForward) = <<>>
            /\ Len(SelectSeq(bwd, IsBackwardStep)) = 2 * n
            /\ \A k \in 1..n :
                /\ SelectSeq(bwd, IsBackwardStep)[k] = <<"backward_input", n - k, 0>>
                /\ SelectSeq(bwd, IsBackwardStep)[n + k] = <<"backward_parameters", n - k, 0>>
            /\ SelectSeq(fwd, IsBackwardStep) = <<>>
            /\ loss = SumReturned(forwards, 1)

\* C13 witness: forward_backward returned a positive loss on two layers:
\* two forward steps and a synchronization, then two passes of two
\* backward steps and a synchronization each.
C13_Witness ==
    /\ Returned("forward_backward")
    /\ NumLayers = 2
    /\ Len(trace) = 9
    /\ loss > 0
    /\ IsForward(trace[2]) /\ IsSynchronize(trace[3]) /\ IsBackwardStep(trace[4])

(***************************************************************************)
(* Properties of the gradient life cycle (SpecTrain)                       *)
(***************************************************************************)
LearnableGradients ==
    Range(network.learnable_weights_gradient)

\* layers that do not skip backward, own a weight and, in the given heap,
\* have a nonzero gradient arriving from above
Driven(heap) ==
    {k \in 1..NumLayers :
        /\ ~network.layers[k].skip_backward
        /\ network.layers[k].weights_gradient # <<>>
        /\ Upstream(network.layers[k], heap) # 0}

\* C14: clear_weight_diffs() leaves every learnable weight gradient zero
\* whatever the gradients held before, changes no other tensor, and
\* changes nothing at all when the gradients are already zero (it is
\* idempotent); a backward() taken from cleared gradients in which a
\* non-skipping layer that owns a weight receives a nonzero upstream
\* gradient leaves at least one learnable weight gradient nonzero.
C14_ClearZeroesBackwardFillsClearAgain ==
    [][/\ call'.fn = "clear_weight_diffs" =>
            /\ \A h \in LearnableGradients : tensors'[h] = 0
            /\ \A h \in 1..Len(tensors) : h \notin LearnableGradients => tensors'[h] = tensors[h]
            /\ Len(tensors') = Len(tensors)
            /\ Cleared => tensors' = tensors
       /\ (call'.fn = "backward" /\ pc' = "built" /\ Cleared /\ Driven(tensors') # {}) =>
            \E h \in LearnableGradients : tensors'[h] # 0]_vars

\* C14 witness: clear_weight_diffs has returned on a network in which a
\* non-skipping layer owns a weight and still holds the upstream gradient
\* a backward pass left in its output gradient: the weight gradients had
\* been filled, and all are zero again.
C14_Witness ==
    /\ Returned("clear_weight_diffs")
    /\ Driven(tensors) # {}
    /\ \E k \in Driven(tensors) : network.layers[k].config.kind = "linear"
    /\ Cleared

\* C15: backward() adds to the learnable weight gradients and never
\* resets them: after a backward() every learnable weight gradient is
\* what it held before plus what the same backward() contributes to
\* cleared gradients, so two calls without a clear_weight_diffs() between
\* them leave the sum of both contributions; and no operation other than
\* clear_weight_diffs() turns a nonzero learnable weight gradient to zero.
C15_BackwardAccumulates ==
    [][/\ (call'.fn = "backward" /\ pc' = "built") =>
            LET fresh == Backward(network, ClearWeightDiffs(network, tensors)).tensors
            IN  \A h \in LearnableGradients :
                    /\ tensors'[h] = tensors[h] + fresh[h]
                    /\ fresh[h] >= 0
       /\ (\E h \in LearnableGradients : tensors[h] # 0 /\ tensors'[h] = 0) =>
            call'.fn = "clear_weight_diffs"]_vars

\* C15 witness: backward() has returned and a learnable weight gradient
\* holds two contributions, no clear_weight_diffs() having come between.
C15_Witness ==
    /\ Returned("backward")
    /\ \E h \in LearnableGradients : tensors[h] = 2

(***************************************************************************)
(* Properties of update_weights and weight sharing (SpecShare)             *)
(***************************************************************************)
LearnableData ==
    Range(network.learnable_weights_data)

\* layers k1 < k2 whose weights carry the same (non-empty) share name:
\* k1 declared first, k2 declares the same name
SharingPairs ==
    {p \in (1..NumLayers) \X (1..NumLayers) :
        /\ p[1] < p[2]
        /\ network.layers[p[1]].weights_data # <<>>
        /\ network.layers[p[2]].weights_data # <<>>
        /\ network.layers[p[1]].config.weight.name # ""
        /\ network.layers[p[1]].config.weight.name = network.layers[p[2]].config.weight.name}

\* C16: one update_weights(backend) leaves in the data buffer of every
\* learnable weight data + (-1) * gradient, computed from the data and
\* gradient held when the call was made; the axpy on a weight comes after
\* the synchronization of its gradient and of its data buffer; no
\* gradient buffer and no tensor that is not the data of a learnable
\* weight changes.
C16_UpdateSubtractsGradientOnce ==
    [][call'.fn = "update_weights" =>
        /\ pc' = "built"
        /\ Len(tensors') = Len(tensors)
        /\ \A k \in 1..Len(network.learnable_weights_data) :
            tensors'[network.learnable_weights_data[k]] =
                tensors[network.learnable_weights_data[k]]
                    + (-1) * tensors[network.learnable_weights_gradient[k]]
        /\ \A h \in 1..Len(tensors) : h \notin LearnableData => tensors'[h] = tensors[h]
        /\ Len(trace') = 3 * Len(network.learnable_weights_data)
        /\ \A k \in 1..Len(network.learnable_weights_data) :
            /\ trace'[3 * k - 2] = <<"sync", network.learnable_weights_gradient[k], 0>>
            /\ trace'[3 * k - 1] = <<"sync", network.learnable_weights_data[k], 0>>
            /\ trace'[3 * k] = <<"axpy_plain", network.learnable_weights_data[k], -1>>]_vars

\* C17: in a constructed network, a weight declared under a share name an
\* earlier layer's weight already carries holds the very handles of that
\* owner's data and gradient tensors,
\* the flattened learnable lists hold those handles for both, and what
\* update_weights writes through the one is what is read through the
\* other.
C17_SharedWeightsAliasOwner ==
    pc = "built" =>
        \A p \in SharingPairs :
            LET owner == network.layers[p[1]]
                sharer == network.layers[p[2]]
            IN  /\ sharer.weights_data = owner.weights_data
                /\ sharer.weights_gradient = owner.weights_gradient
                /\ Range(owner.weights_data) \subseteq LearnableData
                /\ Range(owner.weights_gradient) \subseteq LearnableGradients
                /\ \A j \in 1..Len(sharer.weights_data) :
                    /\ tensors[sharer.weights_data[j]] = tensors[owner.weights_data[j]]
                    /\ tensors[sharer.weights_gradient[j]] = tensors[owner.weights_gradient[j]]

\* C17 witness: update_weights has returned on a network whose two
\* weighted layers share one weight; the shared data tensor has been
\* written (it is nonzero) and both layers hold its handle.
C17_Witness ==
    /\ Returned("update_weights")
    /\ <<1, 2>> \in SharingPairs
    /\ network.layers[1].weights_data = network.layers[2].weights_data
    /\ tensors[network.layers[2].weights_data[1]] # 0

(***************************************************************************)
(* Properties of check_dimensions (SpecCheck)                              *)
(***************************************************************************)
\* C18: check_dimensions returns an error exactly when the two blobs
\* violate the configured share_mode: under Strict exactly when their
\* shapes differ, under Permissive exactly when their element counts
\* differ; in every other case it returns Ok.  (Shapes that differ but
\* hold equally many elements are accepted under Permissive and rejected
\* under Strict.)
C18_CheckDimensionsByShareMode ==
    pc = "checked" =>
        LET self == call.args[1]
            blob_one == call.args[2]
            blob_two == call.args[3]
            result == trace[1]
        IN  /\ result \in {"Ok", "Err"}
            /\ self.share_mode = "Strict" => (result = "Err" <=> blob_one # blob_two)
            /\ self.share_mode = "Permissive" =>
                    (result = "Err" <=> Size(blob_one) # Size(blob_two))

\* C18 witness: shapes [1, 2] and [2] (two elements each) under the
\* Permissive mode were accepted.
C18_Witness ==
    /\ pc = "checked"
    /\ call.args[1].share_mode = "Permissive"
    /\ call.args[2] = <<1, 2>>
    /\ call.args[3] = <<2>>
    /\ trace = <<"Ok">>

\* the configuration declares a weight under a share name an earlier
\* layer's weight carries, with dimensions that violate the sharer's
\* share_mode against the first weight of that name
Mismatched(config) ==
    \E k1 \in 1..Len(config.layers), k2 \in 1..Len(config.layers) :
        /\ k1 < k2
        /\ config.layers[k1].kind = "linear" /\ config.layers[k2].kind = "linear"
        /\ config.layers[k1].weight.name # ""
        /\ config.layers[k1].weight.name = config.layers[k2].weight.name
        /\ \A k0 \in 1..(k1 - 1) :
            config.layers[k0].weight.name # config.layers[k1].weight.name
        /\ CheckDimensions(config.layers[k2].weight, config.layers[k2].weight_shape,
                           config.layers[k1].weight_shape) = "Err"

\* C19: a shared-weight dimension mismatch under the sharer's share_mode
\* makes from_config end in a configuration error handed to the caller:
\* it neither returns a network nor panics.
C19_MismatchIsConfigurationErrorNotPanic ==
    [][(call'.fn = "from_config" /\ Mismatched(call'.args[1])) =>
            pc' \notin {"built", "panicked"}]_vars

\* C20: get_data(name) returns the data handle the network's registry
\* holds for name when name is registered and panics when it is not (no
\* handle is returned); either way the network, its registry and the
\* tensors are left as they were.
C20_GetDataReturnsRegisteredHandleOrPanics ==
    [][call'.fn = "get_data" =>
        LET name == call'.args[1]
        IN  /\ name \in DOMAIN network.registry =>
                /\ pc' = "built"
                /\ trace' = <<network.registry[name][1]>>
            /\ name \notin DOMAIN network.registry =>
                /\ pc' = "panicked"
                /\ trace' = <<>>
            /\ UNCHANGED <<network, tensors, registry>>]_vars

\* C20 witness: get_data returned the data handle of the registered
\* output of the pipeline, a tensor that exists.
C20_Witness ==
    /\ Returned("get_data")
    /\ call.args[1] \in DOMAIN network.registry
    /\ trace = <<network.registry[call.args[1]][1]>>
    /\ trace[1] \in 1..Len(tensors)
    /\ trace[1] = network.layers[NumLayers].output_blobs_data[1]

(***************************************************************************)
(* Properties of the backward passes on tensors (SpecRun)                  *)
(***************************************************************************)
BackwardCalls ==
    {"backward", "backward_input", "backward_parameters",
     "backward_input_from_to", "backward_parameters_from_to"}

ParameterPasses ==
    {"backward_parameters", "backward_parameters_from_to"}

InputPasses ==
    {"backward_input", "backward_input_from_to"}

\* gradient handles a layer may write when it does not skip backward
WeightGradients(layer) ==
    Range(layer.weights_gradient)

InputGradients(layer) ==
    Range(layer.input_blobs_gradient)

Active ==
    {k \in 1..NumLayers : ~network.layers[k].skip_backward}

RECURSIVE LearnableConfigsFrom(_, _)
LearnableConfigsFrom(layers, k) ==
    IF k > Len(layers) THEN <<>>
    ELSE (IF layers[k].config.kind = "linear"
          THEN <<layers[k].config.weight>> ELSE <<>>)
            \o LearnableConfigsFrom(layers, k + 1)

LearnableConfigs ==
    LearnableConfigsFrom(network.layers, 1)

\* C21: on a built network weights_lr() and weights_weight_decay() have
\* the length of learnable_weight_data() and learnable_weight_gradients(),
\* and entry i of each is the multiplier configured for learnable weight i.
C21_MultipliersAlignedWithLearnableWeights ==
    pc = "built" =>
        LET n == Len(LearnableWeightData(network))
        IN  /\ Len(LearnableWeightGradients(network)) = n
            /\ Len(LearnableConfigs) = n
            /\ Len(WeightsLr(network)) = n
            /\ Len(WeightsWeightDecay(network)) = n
            /\ \A i \in 1..n :
                /\ WeightsLr(network)[i] = LearnableConfigs[i].lr_mult
                /\ WeightsWeightDecay(network)[i] = LearnableConfigs[i].decay_mult

(***************************************************************************)
(* The multipliers of a weight descriptor                                  *)
(***************************************************************************)
\* C22: lr_mult() and decay_mult() return the configured multiplier when
\* one is set and 1.0 when it is unset; WeightConfig::default() has both
\* unset, an empty name, Strict share mode and no filler.
C22_MultipliersDefaultToOne ==
    /\ (pc = "checked" /\ call.fn = "lr_mult") =>
            LET self == call.args[1]
            IN  /\ self.lr_mult # <<>> => trace = <<self.lr_mult[1]>>
                /\ self.lr_mult = <<>> => trace = <<1>>
    /\ (pc = "checked" /\ call.fn = "decay_mult") =>
            LET self == call.args[1]
            IN  /\ self.decay_mult # <<>> => trace = <<self.decay_mult[1]>>
                /\ self.decay_mult = <<>> => trace = <<1>>
    /\ call.fn = "default" =>
            LET self == call.args[1]
            IN  /\ self.lr_mult = <<>>
                /\ self.decay_mult = <<>>
                /\ self.name = ""
                /\ self.share_mode = "Strict"
                /\ self.filler = <<>>

\* lr_mult() has returned 1 for a descriptor whose learning-rate
\* multiplier is unset while its decay multiplier is configured
C22_Witness ==
    /\ pc = "checked"
    /\ call.fn = "lr_mult"
    /\ call.args[1].lr_mult = <<>>
    /\ call.args[1].decay_mult = <<2>>
    /\ trace = <<1>>

(***************************************************************************)
(* Determinism of forward                                                  *)
(***************************************************************************)
\* the contents of the output buffers, in the order of the output list
OutputContents(net, heap) ==
    [k \in 1..Len(net.output_blobs_data) |-> heap[net.output_blobs_data[k]]]

\* two forward calls in a row were given buffers of identical contents
SameInputContents ==
    /\ call.fn = "forward"
    /\ call'.fn = "forward"
    /\ Len(call'.args[1]) = Len(call.args[1])
    /\ \A k \in 1..Len(call.args[1]) :
            tensors[call'.args[1][k]] = tensors[call.args[1][k]]

\* two networks in a row were built from the same configuration
SameConfiguration ==
    /\ call.fn = "from_config"
    /\ call'.fn = "from_config"
    /\ call'.args = call.args

\* C23: a second forward on the unmodified network with identical input
\* contents returns the same loss and leaves the same contents in the
\* same output buffers, listed in the same order; and two networks built
\* from the same configuration list their output buffers in the same
\* order.
C23_ForwardDeterministic ==
    [][(pc = "built" /\ pc' = "built") =>
        /\ SameInputContents =>
                /\ loss' = loss
                /\ network'.output_blobs_data = network.output_blobs_data
                /\ OutputContents(network', tensors') = OutputContents(network, tensors)
        /\ SameConfiguration =>
                /\ network'.output_blobs_data = network.output_blobs_data
                /\ OutputContents(network', tensors') = OutputContents(network, tensors)
      ]_vars

(***************************************************************************)
(* The constant filler                                                     *)
(***************************************************************************)
\* the synchronizations and writes among the tensor operations of a fill
FillSteps(entries) ==
    SelectSeq(entries, LAMBDA e : e[1] \in {"sync", "write"})

\* C24: the constant filler leaves the value in every element and the
\* latest device of the tensor as it was, so that the copy on that device
\* holds the filled values; on a tensor whose latest device is not the
\* host the steps are: synchronize to the host, write on the host,
\* synchronize back to the original device.
C24_FillWritesAllAndKeepsResidency ==
    [][call'.fn = "fill" =>
        LET before == tensors[1]
            after == tensors'[1]
            value == call'.args[1].value
            device == before.latest_location
        IN  /\ pc' = "checked"
            /\ after.latest_location = device
            /\ Len(after.copies[device]) = Len(before.copies[device])
            /\ \A k \in 1..Len(after.copies[device]) : after.copies[device][k] = value
            /\ device # "native" =>
                    FillSteps(trace') = <<<<"sync", "native">>, <<"write", "native">>,
                                         <<"sync", device>>>>
      ]_vars

\* after a fill with 1, a tensor of two elements that lives on the
\* device holds 1 in both elements of its device copy
C24_Witness ==
    /\ pc = "checked"
    /\ call.fn = "fill"
    /\ call.args[1].value = 1
    /\ tensors[1].latest_location = "cuda"
    /\ tensors[1].copies["cuda"] = <<1, 1>>
    /\ trace[1] = <<"add_device", "native">>

(***************************************************************************)
(* The topology after construction                                         *)
(***************************************************************************)
\* a network without its input-slot bindings
Unbound(net) ==
    [net EXCEPT
        !.input_blobs_data = <<>>,
        !.layers = [k \in 1..Len(net.layers) |->
                        [net.layers[k] EXCEPT !.input_blobs_data = <<>>]]]

\* C25: no operation on a built network (forward, forward_prefilled,
\* forward_from_to, backward, clear_weight_diffs, update_weights) changes
\* the layer sequence, the name registry, the learnable weight lists or
\* the output buffer lists, or allocates a tensor: apart from tensor
\* contents only the input-slot bindings change.
C25_TopologyImmutableAfterConstruction ==
    [][pc = "built" =>
        /\ Len(network'.layers) = Len(network.layers)
        /\ \A k \in 1..Len(network.layers) :
                network'.layers[k].config = network.layers[k].config
        /\ network'.registry = network.registry
        /\ registry' = registry
        /\ network'.learnable_weights_data = network.learnable_weights_data
        /\ network'.learnable_weights_gradient = network.learnable_weights_gradient
        /\ network'.output_blobs_data = network.output_blobs_data
        /\ network'.output_blobs_gradient = network.output_blobs_gradient
        /\ Len(tensors') = Len(tensors)
        /\ Unbound(network') = Unbound(network)
      ]_vars

\* forward has rebound an input slot of a two-layer pipeline whose weights
\* an update has moved
C25_Witness ==
    /\ pc = "built"
    /\ call.fn = "forward"
    /\ Len(network.layers) = 2
    /\ \E k \in 1..Len(network.input_blobs_data) :
            network.input_blobs_data[k] > Len(tensors) - MaxExternal
    /\ \E k \in 1..Len(network.learnable_weights_data) :
            tensors[network.learnable_weights_data[k]] # 0

(***************************************************************************)
(* Layers that fail validation                                             *)
(***************************************************************************)
\* the configurations of the layers of the pipeline, in order
PipelineConfigs(net) ==
    [k \in 1..Len(net.layers) |-> net.layers[k].config]

\* C26: when a layer configuration fails its validation, from_config
\* returns no network, and the invalid layer is not part of any pipeline.
C26_InvalidLayerFailsConstruction ==
    [][(/\ call'.fn = "from_config"
        /\ \E k \in 1..Len(call'.args[1].layers) :
                Validate(call'.args[1].layers[k]) = "Err") =>
            /\ pc' # "built"
            /\ \A k \in 1..Len(network'.layers) :
                    Validate(network'.layers[k].config) = "Ok"
      ]_vars

(***************************************************************************)
(* The network state                                                       *)
(***************************************************************************)
\* C28: the pipeline built from a configuration holds exactly the
\* configured layers whose include / exclude rules match the network
\* state, in order, and no forward or backward pass changes it.
C28_PipelineDecidedByStateAtConstruction ==
    [][/\ (call'.fn = "from_config" /\ pc' = "built") =>
            PipelineConfigs(network') =
                SelectSeq(call'.args[1].layers,
                          LAMBDA l : Included(call'.args[1].state, l))
       /\ (pc = "built" /\ call'.fn \in {"forward_prefilled", "backward"}) =>
            PipelineConfigs(network') = PipelineConfigs(network)
      ]_vars

(***************************************************************************)
(* The momentum solver                                                     *)
(***************************************************************************)
\* C27: compute_update_value(config, g, id, global_lr, blob_lr) on an
\* existing history entry sets history[id] to (global_lr * blob_lr) * g +
\* config.momentum * history[id] (the old history), stores that value in
\* g as well, and changes no other tensor: no other history entry, no
\* weight data, no other gradient.
C27_MomentumUpdatesHistoryAndGradient ==
    [][(call'.fn = "compute_update_value" /\ call'.args[3] < Len(solver'.history)) =>
        LET config == call'.args[1]
            g == call'.args[2]
            global_lr == call'.args[4]
            blob_lr == call'.args[5]
            history == solver'.history[call'.args[3] + 1]
        IN  /\ pc' = "checked"
            /\ tensors'[history] =
                    (global_lr * blob_lr) * tensors[g] + config.momentum * tensors[history]
            /\ tensors'[g] = tensors'[history]
            /\ Len(tensors') = Len(tensors)
            /\ \A h \in 1..Len(tensors) :
                    h \notin {g, history} => tensors'[h] = tensors[h]
            /\ solver'.history = solver.history
      ]_vars

\* the second history entry and the first gradient both hold 2: the
\* gradient 1 at rate 1 on top of the old history 1 kept by momentum 1
C27_Witness ==
    /\ pc = "checked"
    /\ call.fn = "compute_update_value"
    /\ call.args[1].momentum = 1
    /\ call.args[2] = 3
    /\ call.args[3] = 1
    /\ tensors[3] = 2
    /\ tensors[6] = 2
    /\ tensors[5] = 0

(***************************************************************************)
(* The order of wiring                                                     *)
(***************************************************************************)
\* the (data, gradient) pairs of the weights of the layers from position
\* k on, layer by layer
RECURSIVE WeightPairsFrom(_, _)
WeightPairsFrom(layers, k) ==
    IF k > Len(layers) THEN <<>>
    ELSE [j \in 1..Len(layers[k].weights_data) |->
            <<layers[k].weights_data[j], layers[k].weights_gradient[j]>>]
         \o WeightPairsFrom(layers, k + 1)

\* C29: external inputs are registered, in the order given, while the
\* pipeline is still empty; every wired layer is appended behind the
\* layers wired before it, which stay as they are; and the learnable
\* weight data and gradient lists are, index by index, the weight buffers
\* of the layers in pipeline order.
C29_WiringOrder ==
    [][/\ call'.fn = "init_input_blob" =>
            /\ network.layers = <<>>
            /\ network'.layers = <<>>
            /\ \/ network'.input_blob_names =
                    Append(network.input_blob_names, call'.args[1])
               \/ /\ call'.args[1] \in Range(network.input_blob_names)
                  /\ network'.input_blob_names = network.input_blob_names
       /\ (call'.fn = "init_layer" /\ pc' = "layers") =>
            /\ PipelineConfigs(network') =
                    Append(PipelineConfigs(network), call'.args[1])
            /\ SubSeq(network'.layers, 1, Len(network.layers)) = network.layers
            /\ network'.input_blob_names = network.input_blob_names
       /\ pc' \in {"inputs", "layers", "built"} =>
            /\ Len(network'.learnable_weights_gradient) =
                    Len(network'.learnable_weights_data)
            /\ [i \in 1..Len(network'.learnable_weights_data) |->
                    <<network'.learnable_weights_data[i],
                      network'.learnable_weights_gradient[i]>>]
                = WeightPairsFrom(network'.layers, 1)
      ]_vars

\* a third layer has been wired behind two inputs, and the pipeline holds
\* two weights
C29_Witness ==
    /\ pc = "layers"
    /\ call.fn = "init_layer"
    /\ Len(network.input_blob_names) = 2
    /\ Len(network.layers) = 3
    /\ Len(network.learnable_weights_data) = 2
    /\ network.layers[1].weights_data = <<>>

(***************************************************************************)
(* The backward-skip analysis                                              *)
(***************************************************************************)
\* the init_backprop calls of the last operation, in order
BackpropCalls(entries) ==
    SelectSeq(entries, LAMBDA e : e[1] = "init_backprop")

\* the skip flags of the pipeline
SkipFlags(net) ==
    [k \in 1..Len(net.layers) |->
        <<net.layers[k].skip_backward, net.layers[k].input_need_backwards>>]

\* what construction did: one init_backprop call per layer, from the last
\* layer down to layer 0; the first call is given two empty sets and
\* every later call the two sets as the call before it left them; and
\* every call precedes every push to the output lists, of which there is
\* one per output buffer
AnalysedOnce ==
    LET calls == BackpropCalls(trace)
        n == Len(network.layers)
    IN  /\ Len(calls) = n
        /\ \A k \in 1..n : calls[k][2] = n - k
        /\ n > 0 => calls[1][3] = [blobs_under_loss |-> {}, blobs_skip_backp |-> {}]
        /\ \A k \in 1..(n - 1) :
                LET left == InitBackprop(network.layers[calls[k][2] + 1],
                                         calls[k][3].blobs_under_loss,
                                         calls[k][3].blobs_skip_backp)
                IN  calls[k + 1][3] = [blobs_under_loss |-> left.blobs_under_loss,
                                       blobs_skip_backp |-> left.blobs_skip_backp]
        /\ \A j \in 1..Len(trace), k \in 1..Len(trace) :
                (trace[j][1] = "init_backprop" /\ trace[k][1] = "output") => j < k
        /\ Len(SelectSeq(trace, LAMBDA e : e[1] = "output"))
                = Len(network.output_blobs_data)

\* C30: construction runs init_backprop exactly once on each layer, in
\* strictly decreasing layer order, on one shared pair of sets, before the
\* output buffers are collected; and no operation on the built network
\* calls init_backprop or changes a skip flag.
C30_BackpropAnalysisOnceAtConstruction ==
    /\ [](call.fn = "init" => AnalysedOnce)
    /\ [][pc = "built" =>
            /\ BackpropCalls(trace') = <<>>
            /\ SkipFlags(network') = SkipFlags(network)
         ]_vars

\* construction has analysed a pipeline of three layers, and the call on
\* layer 0 was given both sets non-empty, as the calls on the layers
\* above it left them
C30_Witness ==
    /\ pc = "built"
    /\ call.fn = "init"
    /\ Len(network.layers) = 3
    /\ Len(BackpropCalls(trace)) = 3
    /\ BackpropCalls(trace)[3][2] = 0
    /\ BackpropCalls(trace)[3][3].blobs_under_loss # {}
    /\ BackpropCalls(trace)[3][3].blobs_skip_backp # {}

(***************************************************************************)
(* Construction with force_backward (SpecBuild)                            *)
(***************************************************************************)
\* the init_force_backward calls of the last operation, in order
ForceCalls(entries) ==
    SelectSeq(entries, LAMBDA e : e[1] = "init_force_backward")

\* C31 as stated: a construction with force_backward set runs
\* init_backprop on no layer.
C31_Original_ForceBackwardBypassesAnalysis ==
    BuiltWith(TRUE) => BackpropCalls(trace) = <<>>

\* C31: a construction with force_backward set still runs the reverse
\* analysis (init_backprop once on each layer, from the last layer down to
\* layer 0) and then runs init_force_backward once on each layer, in layer
\* order, after every init_backprop call; the flags the analysis left are
\* all overwritten, so that no layer skips backward and every input of
\* every layer is flagged as needing backward.
C31_ForceBackwardOverridesAnalysis ==
    BuiltWith(TRUE) =>
        LET calls == BackpropCalls(trace)
            forced == ForceCalls(trace)
            n == NumLayers
        IN  /\ Len(calls) = n
            /\ \A k \in 1..n : calls[k][2] = n - k
            /\ Len(forced) = n
            /\ \A k \in 1..n : forced[k][2] = k - 1
            /\ \A j \in 1..Len(trace), k \in 1..Len(trace) :
                (trace[j][1] = "init_backprop" /\ trace[k][1] = "init_force_backward")
                    => j < k
            /\ \A k \in 1..n :
                /\ ~network.layers[k].skip_backward
                /\ \A j \in 1..Len(network.layers[k].input_need_backwards) :
                    network.layers[k].input_need_backwards[j]

\* C31 witness: a network built with force_backward = true whose layer 0
\* has an input and is off every path to a loss layer (the analysis alone
\* flags it to skip), with a loss layer after it; the analysis was run on
\* both layers, and layer 0 does not skip and its input needs backward.
C31_Witness ==
    /\ BuiltWith(TRUE)
    /\ NumLayers = 2
    /\ ~OnLossPath(1)
    /\ network.layers[1].input_need_backwards = <<TRUE>>
    /\ network.layers[2].config.kind = "loss"
    /\ Len(BackpropCalls(trace)) = 2
    /\ Len(ForceCalls(trace)) = 2
    /\ ~network.layers[1].skip_backward

(***************************************************************************)
(* Construction from configurations whose list of input names and list of  *)
(* input shapes are written independently, followed by forward passes on   *)
(* the caller's buffers and lookups by name.                               *)
(***************************************************************************)
\* a pipeline without layers, one layer on the input "a", or that layer
\* followed by a loss layer
InputConfigs ==
    {[inputs |-> inputs,
      input_shapes |-> [k \in 1..n |-> <<1>>],
      layers |-> [k \in 1..m |-> ChainLayer(k, IF k = 2 THEN "loss" ELSE "linear")],
      force_backward |-> FALSE, state |-> DefaultState] :
        inputs \in UNION {[1..j -> InputNames] : j \in 0..MaxInputs},
        n \in 0..MaxInputs,
        m \in 0..2}

InitInputs ==
    /\ network = DefaultNetwork
    /\ tensors = <<>>
    /\ registry = EmptyRegistry
    /\ pc = "config"
    /\ input_id = 0
    /\ \E config \in InputConfigs : call = [fn |-> "config", args |-> <<config>>]
    /\ trace = <<>>
    /\ loss = 0
    /\ solver = MomentumNew

NextInputs ==
    \/ CallFromConfigAnyOrder
    \/ CallForward
    \/ CallGetData

SpecInputs ==
    InitInputs /\ [][NextInputs]_vars

(***************************************************************************)
(* Properties of the external inputs (SpecInputs)                          *)
(***************************************************************************)
\* C32: from_config fails when the list of input names and the list of
\* input shapes of the configuration differ in length; when it returns a
\* network, every name of the configuration's input list is, at its
\* position, in the network's list of declared input names, and has its
\* data buffer at that position of the network's input buffers.
C32_DeclaredInputsNeverDropped ==
    call.fn = "from_config" =>
        LET config == call.args[1]
        IN  /\ Len(config.inputs) # Len(config.input_shapes) => pc = "panicked"
            /\ pc = "built" =>
                /\ network.input_blob_names = config.inputs
                /\ Len(network.input_blobs_data) = Len(config.inputs)

\* C33: a forward(inputs) given more buffers than the network has
\* declared inputs fails, and leaves the network as it was: no layer ran
\* (no call on a layer, no tensor changed) and no input slot of the
\* network or of a layer was rebound.
C33_TooManyInputsFailsAndChangesNothing ==
    [][(call'.fn = "forward" /\ Len(call'.args[1]) > Len(network.input_blob_names)) =>
        /\ pc' = "panicked"
        /\ trace' = <<>>
        /\ tensors' = tensors
        /\ network'.input_blobs_data = network.input_blobs_data
        /\ \A k \in 1..NumLayers :
            network'.layers[k].input_blobs_data = network.layers[k].input_blobs_data
      ]_vars

\* the positions of `name` among the inputs the last forward was given
SuppliedAs(name) ==
    {i \in 1..Len(call.args[1]) : network.input_blob_names[i] = name}

\* get_data is called on a declared input name right after a forward that
\* was given a buffer for it
LookupAfterForward ==
    /\ call.fn = "forward"
    /\ pc = "built"
    /\ call'.fn = "get_data"
    /\ SuppliedAs(call'.args[1]) # {}

\* C34 as stated: after forward(inputs), get_data(n) for the i-th declared
\* input name n returns the handle supplied as inputs[i].
C34_Original_GetDataReturnsSuppliedHandle ==
    [][LookupAfterForward =>
        /\ pc' = "built"
        /\ \A i \in SuppliedAs(call'.args[1]) : trace' = <<call.args[1][i]>>
      ]_vars

\* C34: forward(inputs) binds inputs[i] into the network's i-th input slot
\* and into the layer slots named like the i-th declared input n, which
\* is what the layers read, and leaves the registry as construction left
\* it: get_data(n) after the pass returns the data handle registered for
\* n at construction when n is still registered then, whatever buffer was
\* supplied, and fails when n is not (a layer consumed it).
C34_GetDataReturnsConstructionHandle ==
    [][LookupAfterForward =>
        LET n == call'.args[1]
        IN  /\ \A i \in SuppliedAs(n) :
                /\ network.input_blobs_data[i] = call.args[1][i]
                /\ \A k \in 1..NumLayers :
                    \A j \in 1..Len(network.layers[k].input_blob_names) :
                        network.layers[k].input_blob_names[j] = n =>
                            network.layers[k].input_blobs_data[j] = call.args[1][i]
            /\ n \in DOMAIN registry =>
                /\ pc' = "built"
                /\ trace' = <<registry[n][1]>>
            /\ n \notin DOMAIN registry => pc' = "panicked"
      ]_vars

\* C34 witness: get_data has returned for a declared input name whose
\* input slot holds a buffer of the caller, bound by the forward before
\* it, and the handle returned is not that buffer but the one the
\* registry holds.
C34_Witness ==
    /\ call.fn = "get_data"
    /\ pc = "built"
    /\ \E i \in 1..Len(network.input_blob_names) :
        /\ network.input_blob_names[i] = call.args[1]
        /\ network.input_blobs_data[i] > Len(tensors) - MaxExternal
        /\ trace # <<network.input_blobs_data[i]>>
        /\ trace = <<registry[call.args[1]][1]>>

(***************************************************************************)
(* One update per underlying weight buffer (SpecShare)                     *)
(***************************************************************************)
\* the entries of the learnable weight list whose data buffer is h
EntriesOf(h) ==
    {k \in 1..Len(network.learnable_weights_data) : network.learnable_weights_data[k] = h}

\* C35: one update_weights changes every underlying weight data buffer by
\* exactly -1 * its gradient, once, however many entries of the learnable
\* weight list hold that buffer.
C35_UpdateOncePerUnderlyingBuffer ==
    [][call'.fn = "update_weights" =>
        \A h \in LearnableData :
            \A k \in EntriesOf(h) :
                tensors'[h] = tensors[h] + (-1) * tensors[network.learnable_weights_gradient[k]]
      ]_vars

(***************************************************************************)
(* Ranges past the end of the pipeline (SpecRun)                           *)
(***************************************************************************)
\* the last operation was a backward pass over a range
BackwardRange(fn) ==
    fn \in {"backward_input_from_to", "backward_parameters_from_to"}

\* the operation about to return did nothing: it called no layer and left
\* every tensor as it was
NothingDone ==
    /\ trace' = <<>>
    /\ tensors' = tensors

\* C37 as stated: forward_from_to with end greater than the layer count,
\* and backward_input_from_to / backward_parameters_from_to with start
\* greater than the layer count, fail before any layer step has run.
C37_Original_RangeErrorsFailBeforeAnyWork ==
    [][/\ (call'.fn = "forward_from_to" /\ call'.args[2] > NumLayers) =>
            (pc' = "panicked" /\ NothingDone)
       /\ (BackwardRange(call'.fn) /\ call'.args[1] > NumLayers) =>
            (pc' = "panicked" /\ NothingDone)
      ]_vars

\* C37: forward_from_to(start, end) with end greater than the layer count
\* fails before any layer's forward runs.  backward_input_from_to(start,
\* end) and backward_parameters_from_to(start, end) with start greater
\* than the layer count run no layer's backward step: they fail, on the
\* first index of the range, when the range is not empty (end < start),
\* and return without failing when it is empty (end >= start).  In every
\* one of these cases all buffers are left unchanged.
C37_RangeErrorsDoNoWork ==
    [][/\ (call'.fn = "forward_from_to" /\ call'.args[2] > NumLayers) =>
            (pc' = "panicked" /\ NothingDone)
       /\ (BackwardRange(call'.fn) /\ call'.args[1] > NumLayers) =>
            /\ NothingDone
            /\ (pc' = "panicked") = (call'.args[2] < call'.args[1])
      ]_vars

\* C37 witness: a backward pass over a range that starts past the end of
\* a pipeline of two layers has failed, with a gradient left by an
\* earlier backward pass still in place.
C37_Witness ==
    /\ BackwardRange(call.fn)
    /\ NumLayers = 2
    /\ call.args[1] = 3
    /\ call.args[2] = 1
    /\ pc = "panicked"
    /\ trace = <<>>
    /\ \E h \in 1..Len(tensors) : tensors[h] # 0

(***************************************************************************)
(* Data and gradient handles as pairs (SpecTrain)                          *)
(***************************************************************************)
\* the (data, gradient) pairs the registry holds
RegisteredPairs ==
    {network.registry[n] : n \in DOMAIN network.registry}

\* the (data, gradient) pairs of the weights the layers hold
WeightPairs ==
    UNION {{<<network.layers[k].weights_data[j], network.layers[k].weights_gradient[j]>> :
                j \in 1..Len(network.layers[k].weights_data)} : k \in 1..NumLayers}

\* the data list and the gradient list have the same length
SameLength(data, gradient) ==
    Len(data) = Len(gradient)

\* C38: in every state after construction the data list and the gradient
\* list of the blobs, of the inputs, of the outputs and of the learnable
\* weights have equal length; entry i of the two output lists is a
\* registered pair and entry i of the two learnable lists is the pair of
\* a layer's weight; every declared input has a data and a gradient
\* handle recorded.
C38_DataAndGradientListsPaired ==
    pc = "built" =>
        /\ SameLength(network.blobs_data, network.blobs_gradient)
        /\ SameLength(network.input_blobs_data, network.input_blobs_gradient)
        /\ Len(network.input_blobs_gradient) = Len(network.input_blob_names)
        /\ SameLength(network.output_blobs_data, network.output_blobs_gradient)
        /\ \A i \in 1..Len(network.output_blobs_data) :
            <<network.output_blobs_data[i], network.output_blobs_gradient[i]>>
                \in RegisteredPairs
        /\ SameLength(network.learnable_weights_data, network.learnable_weights_gradient)
        /\ \A i \in 1..Len(network.learnable_weights_data) :
            <<network.learnable_weights_data[i], network.learnable_weights_gradient[i]>>
                \in WeightPairs

(***************************************************************************)
(* The guards taken on the RwLock of a tensor by clear_weight_diffs,       *)
(* update_weights and Momentum::compute_update_value.  An event is         *)
(* <<"read" | "write", handle, 0>> (x.read().unwrap(), x.write().unwrap()) *)
(* or <<"drop_read" | "drop_write", handle, 0>>; a guard that is a         *)
(* temporary of a statement is dropped at the end of the statement, the    *)
(* temporaries of one statement in the reverse order of their creation.    *)
(***************************************************************************)
\* a statement x.write().unwrap().f(..)
WriteStatement(x) ==
    << <<"write", x, 0>>, <<"drop_write", x, 0>> >>

\* a statement f(.., &x.read().unwrap(), .., &mut y.write().unwrap())
ReadWriteStatement(x, y) ==
    << <<"read", x, 0>>, <<"write", y, 0>>, <<"drop_write", y, 0>>, <<"drop_read", x, 0>> >>

\* clear_weight_diffs: filler.fill(&mut weight_gradient.write().unwrap())
\* for each learnable weight gradient
RECURSIVE ClearWeightDiffsLocksFrom(_, _)
ClearWeightDiffsLocksFrom(net, k) ==
    IF k > Len(net.learnable_weights_gradient) THEN <<>>
    ELSE WriteStatement(net.learnable_weights_gradient[k])
            \o ClearWeightDiffsLocksFrom(net, k + 1)

ClearWeightDiffsLocks(net) ==
    ClearWeightDiffsLocksFrom(net, 1)

\* update_weights, the three statements of the loop body
UpdateWeightsLocksStep_GuardKept(net, k) ==
    LET weight_gradient == net.learnable_weights_gradient[k]
        weight_data == net.learnable_weights_data[k]
    IN  << <<"write", weight_gradient, 0>> >>
            \o WriteStatement(weight_data)
            \o ReadWriteStatement(weight_gradient, weight_data)
            \o << <<"drop_write", weight_gradient, 0>> >>

UpdateWeightsLocksStep(net, k) ==
    LET weight_gradient == net.learnable_weights_gradient[k]
        weight_data == net.learnable_weights_data[k]
    IN  WriteStatement(weight_gradient)
            \o WriteStatement(weight_data)
            \o ReadWriteStatement(weight_gradient, weight_data)

RECURSIVE UpdateWeightsLocksFrom(_, _)
UpdateWeightsLocksFrom(net, k) ==
    IF k > Len(net.learnable_weights_gradient) \/ k > Len(net.learnable_weights_data)
    THEN <<>>
    ELSE UpdateWeightsLocksStep(net, k) \o UpdateWeightsLocksFrom(net, k + 1)

UpdateWeightsLocks(net) ==
    UpdateWeightsLocksFrom(net, 1)

\* compute_update_value: add_device and sync on the gradient, add_device
\* and sync on the history blob, axpby_plain, copy_plain (nothing is
\* locked when indexing self.history panics)
ComputeUpdateValueLocks(self, weight_gradient, history_blob_id) ==
    IF history_blob_id >= Len(self.history) THEN <<>>
    ELSE LET history_blob == self.history[history_blob_id + 1]
         IN  WriteStatement(weight_gradient) \o WriteStatement(weight_gradient)
                \o WriteStatement(history_blob) \o WriteStatement(history_blob)
                \o ReadWriteStatement(weight_gradient, history_blob)
                \o ReadWriteStatement(history_blob, weight_gradient)

\* the guards held after the first n events: a set of <<mode, handle>>
RECURSIVE Held(_, _)
Held(events, n) ==
    IF n = 0 THEN {}
    ELSE LET e == events[n]
             before == Held(events, n - 1)
         IN  CASE e[1] \in {"read", "write"} -> before \cup {<<e[1], e[2]>>}
               [] e[1] = "drop_read" -> before \ {<<"read", e[2]>>}
               [] e[1] = "drop_write" -> before \ {<<"write", e[2]>>}
               [] OTHER -> before

\* RwLock: write() waits while any guard on the lock is held, read()
\* while a write guard is; the one thread that holds the guard waits for
\* itself
Conflicts(held, e) ==
    \/ e[1] = "write" /\ \E g \in held : g[2] = e[2]
    \/ e[1] = "read" /\ <<"write", e[2]>> \in held

\* the number of events done when the thread blocks (all of them when it
\* does not)
RECURSIVE RunsUntil(_, _)
RunsUntil(events, n) ==
    IF n >= Len(events) THEN Len(events)
    ELSE IF Conflicts(Held(events, n), events[n + 1]) THEN n
    ELSE RunsUntil(events, n + 1)

(***************************************************************************)
(* The training loop of a solver with momentum on a built network:         *)
(* clear_weight_diffs; forward_backward; compute_update_value on every     *)
(* learnable weight gradient, in order; update_weights; and again.  The    *)
(* trace of the three operations of this loop that take locks themselves   *)
(* lists their lock events.                                                *)
(***************************************************************************)
\* The networks are those of ShareConfigs; the solver holds one history
\* tensor per entry of the learnable weight list, zero at the start.
InitSolve ==
    \E config \in ShareConfigs :
        LET w == Wired(config)
        IN  /\ ~w.failed
            /\ LET order == CHOOSE p \in Perms(DOMAIN w.registry) : TRUE
                   s == InitFinish(w, config.force_backward, order)
                   n == Len(s.network.learnable_weights_gradient)
               IN  /\ ~s.failed
                   /\ network = s.network
                   /\ tensors = s.tensors \o [k \in 1..n |-> 0] \o ExternalContents
                   /\ solver = [history |-> [k \in 1..n |-> Len(s.tensors) + k],
                                lr_xx |-> <<>>]
                   /\ registry = s.registry
                   /\ trace = s.trace
                   /\ call = [fn |-> "init", args |-> <<config.force_backward>>]
            /\ input_id = InputIterations(config)
            /\ pc = "built"
            /\ loss = 0

\* what an operation that takes the lock events `events` and, unless it
\* blocks on one of them, leaves the heap `heap` does: a blocked
\* operation never returns
Locked(events, heap, panicked) ==
    LET done == RunsUntil(events, 0)
    IN  /\ trace' = SubSeq(events, 1, done)
        /\ tensors' = IF done < Len(events) THEN tensors ELSE heap
        /\ pc' = CASE done < Len(events) -> "blocked"
                   [] panicked -> "panicked"
                   [] OTHER -> "built"

\* the number of compute_update_value calls made since forward_backward
Computed ==
    CASE call.fn = "forward_backward" -> 0
      [] call.fn = "compute_update_value" -> call.args[3] + 1
      [] OTHER -> -1

\* the learnable weights and their history are within the explored range
WithinRange ==
    /\ \A k \in DOMAIN network.learnable_weights_data :
        tensors[network.learnable_weights_data[k]] \in -MaxGrad..MaxGrad
    /\ \A k \in DOMAIN solver.history :
        tensors[solver.history[k]] \in -MaxGrad..MaxGrad

SolveClearWeightDiffs ==
    /\ pc = "built"
    /\ call.fn \in {"init", "update_weights"}
    /\ WithinRange
    /\ Locked(ClearWeightDiffsLocks(network), ClearWeightDiffs(network, tensors), FALSE)
    /\ call' = [fn |-> "clear_weight_diffs", args |-> <<>>]
    /\ UNCHANGED <<network, registry, input_id, loss, solver>>

SolveForwardBackward ==
    /\ call.fn = "clear_weight_diffs"
    /\ CallForwardBackward

\* the solver's call on the next learnable weight gradient, whose history
\* is the entry of the same index
SolveComputeUpdateValue ==
    /\ pc = "built"
    /\ Computed \in 0..(Len(network.learnable_weights_gradient) - 1)
    /\ \E momentum \in 0..MaxRate, global_lr \in 0..MaxRate, blob_lr \in 0..MaxRate :
        LET config == [momentum |-> momentum]
            weight_gradient == network.learnable_weights_gradient[Computed + 1]
            r == ComputeUpdateValue(solver, tensors, config, weight_gradient,
                                    Computed, global_lr, blob_lr)
        IN  /\ Locked(ComputeUpdateValueLocks(solver, weight_gradient, Computed),
                      r.tensors, r.panicked)
            /\ solver' = r.self
            /\ call' = [fn |-> "compute_update_value",
                        args |-> <<config, weight_gradient, Computed, global_lr, blob_lr>>]
    /\ UNCHANGED <<network, registry, input_id, loss>>

SolveUpdateWeights ==
    /\ pc = "built"
    /\ Computed = Len(network.learnable_weights_gradient)
    /\ Locked(UpdateWeightsLocks(network), UpdateWeights(network, tensors).tensors, FALSE)
    /\ call' = [fn |-> "update_weights", args |-> <<>>]
    /\ UNCHANGED <<network, registry, input_id, loss, solver>>

NextSolve ==
    \/ SolveClearWeightDiffs
    \/ SolveForwardBackward
    \/ SolveComputeUpdateValue
    \/ SolveUpdateWeights

SpecSolve ==
    InitSolve /\ [][NextSolve]_vars

\* the contents of the history tensors and of the learnable weight data
HistoryValues ==
    [k \in DOMAIN solver.history |-> tensors[solver.history[k]]]

WeightValues ==
    [k \in DOMAIN network.learnable_weights_data |->
        tensors[network.learnable_weights_data[k]]]

\* C39: in the training loop clear_weight_diffs; forward_backward;
\* compute_update_value per weight; update_weights, the history of a
\* weight is changed by compute_update_value only (the other three
\* operations leave the solver's list and the contents of every history
\* tensor as they were, so the history carries over to the next
\* iteration), the weight data is as it was before the iteration until
\* update_weights runs, and update_weights leaves in each weight its
\* data before the iteration minus the history computed in the iteration.
C39_HistoryOnlyBySolverAndDataMinusHistory ==
    [][/\ call'.fn \in {"clear_weight_diffs", "forward_backward", "update_weights"}
            => /\ solver' = solver
               /\ HistoryValues' = HistoryValues
       /\ call'.fn \in {"clear_weight_diffs", "forward_backward", "compute_update_value"}
            => WeightValues' = WeightValues
       /\ (call'.fn = "update_weights" /\ pc' = "built")
            => \A k \in DOMAIN network.learnable_weights_data :
                    tensors'[network.learnable_weights_data[k]]
                        = tensors[network.learnable_weights_data[k]]
                            - tensors[solver.history[k]]]_vars

\* the guards a thread may hold together: none, one, or a read guard on
\* one tensor and a write guard on another
HeldTogether(held) ==
    \/ Cardinality(held) <= 1
    \/ \E x \in DOMAIN tensors, y \in DOMAIN tensors :
        x # y /\ held = {<<"read", x>>, <<"write", y>>}

\* C36: clear_weight_diffs, update_weights and compute_update_value never
\* block on a lock of their own: no lock is acquired while the operation
\* holds a conflicting guard on the same tensor, also when two learnable
\* entries are one shared buffer; the guards held together are at most a
\* read guard on one tensor and a write guard on a different one; and no
\* guard is left when the operation returns.
C36_NoOperationBlocksOnItsOwnLock ==
    call.fn \in {"clear_weight_diffs", "update_weights", "compute_update_value"}
        => /\ pc # "blocked"
           /\ \A n \in 1..Len(trace) :
                /\ ~Conflicts(Held(trace, n - 1), trace[n])
                /\ HeldTogether(Held(trace, n))
           /\ Held(trace, Len(trace)) = {}

\* update_weights has returned on a network whose two learnable entries
\* are one shared buffer, after holding a read and a write guard together
C36_Witness ==
    /\ call.fn = "update_weights"
    /\ pc = "built"
    /\ Len(network.learnable_weights_data) = 2
    /\ network.learnable_weights_data[1] = network.learnable_weights_data[2]
    /\ trace = UpdateWeightsLocks(network)
    /\ \E n \in 1..Len(trace) : Cardinality(Held(trace, n)) = 2

====
